---- MODULE Spec2Model ----
(***************************************************************************)
(* Hall-pass engine of the school-operations backend:                      *)
(*   backend/app/services/pass_service.py      (PassService)               *)
(*   backend/app/repositories/pass_repository.py                           *)
(*   backend/routes/pass_advanced.py           (no-fly / encounter checks) *)
(*   backend/routes/passes.py                  (extend_pass)               *)
(*   backend/routes/emergency.py               (trigger / resolve alert)   *)
(*   backend/server.py                         (exception handlers)        *)
(*   backend/middleware/rate_limiter.py        (RateLimiter)               *)
(*   backend/app/core/websocket.py             (ConnectionManager)         *)
(*   backend/middleware/security.py            (AccountLockoutTracker)     *)
(*                                                                         *)
(* Every service method is a coroutine; each `await` on the pass           *)
(* collection is a point where another request may run.  A handler is      *)
(* therefore modelled as a chain of steps, one per read or write of the    *)
(* pass collection, executed by one of the request slots in Procs.         *)
(* Lookups in the users, locations and app_settings collections are folded *)
(* into the neighbouring step: no handler modelled here writes them.       *)
(* The persistence layer is assumed to answer every query on the passes,   *)
(* users and locations collections; a failing app_settings lookup is the   *)
(* one storage failure the service handles itself (_get_setting).          *)
(*                                                                         *)
(* The overtime sweep (check_and_mark_overtime_passes) runs in a sweeper    *)
(* in Sweepers: one read of the active passes, then one step per pass it   *)
(* marks.                                                                  *)
(*                                                                         *)
(* Spec         : handlers interleave at their awaits.                     *)
(* SeqSpec      : one handler at a time, a handler takes no time.          *)
(* DailySpec    : SeqSpec narrowed to the runs that reach the daily limit. *)
(* ReviewSpec   : SeqSpec on a database that holds pending passes.         *)
(* SweepSeqSpec : handlers and sweeps one at a time.                       *)
(* SweepSpec    : a sweep interleaves with request_pass and end_pass.      *)
(* BatchSpec    : sweeps over more active passes than one sweep reads.     *)
(* OpsSpec      : every pass operation and the sweep, one at a time.       *)
(* EmergencySpec: alerts triggered and resolved by users of every role.    *)
(* CheckInSpec  : check-ins for the alerts an administrator triggers.      *)
(* LocationSpec : requests against closed, full and unlimited locations.   *)
(* NoFlySpec    : the no-fly check against the windows an admin created.   *)
(* EncounterSpec: the encounter check against the groups an admin created. *)
(* RaceSpec     : several sweeps interleave with one another.              *)
(* RateSpec     : requests passing through the rate-limit middleware.     *)
(* ManagerSpec  : socket sessions connecting, leaving and joining rooms.   *)
(* LockoutSpec  : failed and successful logins reported to the tracker.    *)
(***************************************************************************)
EXTENDS Integers, Sequences, FiniteSets, Bags, TLC

\* ------------------------------------------------------------------ bounds
\* Passes the store may hold under Spec, SeqSpec and DailySpec, clock
\* advances, and request slots that may run at once.
ConcMaxPasses  == 2
SeqMaxPasses   == 2
DailyMaxPasses == 6
MaxTicks       == 1
NumProcs       == 2
\* Passes the store may hold under ReviewSpec and under the sweep
\* specifications, sweepers, and the active passes BatchSpec holds beyond
\* the number one sweep reads.
ReviewMaxPasses == 3
SweepMaxPasses  == 2
NumSweepers     == 2
BatchExtra      == 1
\* Passes the store may hold under OpsSpec.
OpsMaxPasses    == 2
\* Emergency alerts the store may hold under EmergencySpec.
MaxAlerts       == 2
\* Check-ins the store may hold under CheckInSpec.
MaxCheckins     == 2
\* Requests the rate limiter may let through under RateSpec, and advances of
\* its clock.
MaxServed       == 7
MaxRateSteps    == 1
\* Socket sessions under ManagerSpec.
NumSessions     == 3
\* Failed logins counted per email under LockoutSpec, and advances of its
\* clock.
MaxAttemptsMade == 6
MaxLockSteps    == 2
\* Passes the store may hold under LocationSpec.
LocMaxPasses    == 3
\* No-fly windows the store may hold under NoFlySpec.
MaxWindows      == 2
\* Passes the store may hold under EncounterSpec.
EncMaxPasses    == 2

\* --------------------------------------------------------- program constants
MinutesPerDay      == 1440
DefaultMaxDaily    == 5
SeedMaxDaily       == 5
MinTimeLimit       == 1
MaxTimeLimit       == 60
SweepLimit         == 500

\* Optional values: None is the empty tuple, a present value a 1-tuple.
None    == << >>
Some(x) == << x >>

Procs == 1 .. NumProcs

\* Runs of check_and_mark_overtime_passes that may be under way at once.
Sweepers == 1 .. NumSweepers

\* Users collection (students A, B); "ghost" is an id with no user document.
Users      == {"A", "B"}
StudentIds == Users \cup {"ghost"}

\* Staff users acting on approve / deny.
StaffIds == {"T"}

\* Administrators: Z, and Y whose account was deactivated.
AdminIds == {"Z", "Y"}

\* The documents of the users collection: role and status of every account.
UserDocs ==
    [u \in Users \cup StaffIds \cup AdminIds |->
        [role   |-> IF u \in Users THEN "student"
                    ELSE IF u \in StaffIds THEN "staff" ELSE "admin",
         status |-> IF u = "Y" THEN "inactive" ELSE "active"]]

\* Location ids; "nowhere" has no location document.
LocationIds == {"office", "nurse", "closed", "nowhere"}

\* Clock: minutes since Monday 00:00 UTC.  The run starts Monday 10:05.
StartTime == 10 * 60 + 5
TickSteps == {6, MinutesPerDay}

TimeLimits == {0, 5, 61}

VARIABLES
    now,              \* datetime.utcnow(), in minutes
    ticks,            \* number of clock advances so far (bounded by MaxTicks)
    passes,           \* the passes collection, in insertion order; _id = index
    locations,        \* the locations collection: id -> document
    app_settings,     \* the app_settings collection: key -> value
    encounter_groups, \* the encounter_groups collection
    no_fly_times,     \* the no_fly_times collection
    emergency_alerts, \* the emergency_alerts collection, in insertion order
    emergency_checkins, \* the emergency_checkins collection, likewise
    pc,               \* per request slot: the await the handler is parked at
    local,            \* per request slot: the handler's arguments
    response,         \* outcome of the handler that completed last
    logged,           \* levels the exception handlers logged that outcome at
    sweep_pc,         \* per sweeper: "idle", or "loop" inside the for loop
    active_passes,    \* per sweeper: the documents read, not yet visited
    overtime_count,   \* per sweeper: passes marked by its current / last run
    emitted,          \* events handed to sio.emit, in order
    seconds,          \* datetime.utcnow() as the middleware reads it, in seconds
    rate_limiter,     \* RateLimiter: requests (identifier -> entries), last_cleanup
    served,           \* requests the rate limiter handed to call_next (a bag)
    manager,          \* ConnectionManager: user_connections, session_users, rooms
    failed_attempts,  \* AccountLockoutTracker.failed_attempts: email -> account
    attempts_made     \* per email: the failed logins reported while not locked

vars == << now, ticks, passes, locations, app_settings, encounter_groups,
           no_fly_times, emergency_alerts, emergency_checkins, pc, local,
           response, logged,
           sweep_pc, active_passes, overtime_count, emitted, seconds,
           rate_limiter, served, manager, failed_attempts, attempts_made >>

\* The state of the process-wide objects (rate_limiter, manager,
\* lockout_tracker) and the clock they read.
memory == << seconds, rate_limiter, served, manager, failed_attempts,
             attempts_made >>

\* What the pass handlers and the sweep leave alone.
store == << locations, app_settings, encounter_groups, no_fly_times,
            emergency_alerts, emergency_checkins, memory >>

reply == << response, logged >>

sweeper == << sweep_pc, active_passes, overtime_count >>

\* ------------------------------------------------------- process objects

\* A dict with no key.
EmptyDict == [k \in {} |-> {}]

\* ConnectionManager.__init__: three empty maps.
NewManager ==
    [user_connections |-> EmptyDict,
     session_users    |-> EmptyDict,
     rooms            |-> EmptyDict]

\* RateLimiter(), ConnectionManager() and AccountLockoutTracker() as the
\* modules create them on import; nothing served, no attempt made.
MemoryInit ==
    /\ seconds = 0
    /\ rate_limiter = [requests |-> EmptyDict, last_cleanup |-> 0]
    /\ served = EmptyBag
    /\ manager = NewManager
    /\ failed_attempts = EmptyDict
    /\ attempts_made = EmptyDict

\* ------------------------------------------------------------ collections

\* Location documents (models/passes.py Location).  Main Office and the
\* nurse's office are seeded by app/core/database.py; the nurse's office has
\* had its capacity set to 1 (update_location_capacity) and "closed" has been
\* soft-deleted by an administrator.  No handler modelled here writes them.
SeedLocations ==
    [l \in {"office", "nurse", "closed"} |->
        CASE l = "office" -> [name |-> "Main Office", max_capacity |-> None,
                              requires_approval |-> TRUE, is_active |-> TRUE]
          [] l = "nurse"  -> [name |-> "Nurse's Office",
                              max_capacity |-> Some(1),
                              requires_approval |-> FALSE, is_active |-> TRUE]
          [] l = "closed" -> [name |-> "Closed Room", max_capacity |-> None,
                              requires_approval |-> FALSE, is_active |-> FALSE]]

\* A pass document as request_pass builds it (pass_data) and insert_one
\* stores it (insert_one adds created_at and updated_at); the fields that
\* later updates $set start absent (None).
NewPass(student_id, origin, destination, time_limit, t) ==
    [student_id              |-> student_id,
     origin_location_id      |-> origin,
     destination_location_id |-> destination,
     status                  |-> "active",
     requested_at            |-> t,
     departed_at             |-> Some(t),
     time_limit_minutes      |-> time_limit,
     is_overtime             |-> FALSE,
     returned_at             |-> None,
     approved_by             |-> None,
     approved_at             |-> None,
     denied_by               |-> None,
     denied_at               |-> None,
     denial_reason           |-> None,
     created_at              |-> t,
     updated_at              |-> t]

\* A pass document with the Pass model's defaults: status pending, not yet
\* departed.  request_pass never stores one; ReviewSpec starts on a
\* database that holds such documents.
PendingPass(student_id, origin, destination, time_limit, t) ==
    [NewPass(student_id, origin, destination, time_limit, t)
        EXCEPT !.status = "pending", !.departed_at = None]

\* BaseRepository.find_by_id on the passes collection: None when absent.
PassExists(ps, pass_id) == pass_id \in DOMAIN ps

\* BaseRepository.update_one(id, data) at time t: $set of the given fields
\* and of updated_at on the document with that id; an unknown id matches
\* nothing.
update_one(ps, pass_id, data, t) ==
    IF pass_id \in DOMAIN ps
    THEN [ps EXCEPT ![pass_id] =
            [f \in DOMAIN ps[pass_id] |->
                IF f \in DOMAIN data THEN data[f]
                ELSE IF f = "updated_at" THEN t
                ELSE ps[pass_id][f]]]
    ELSE ps

\* ---------------------------------------------------- repository queries

\* Faulty variant: the query forgets the "active" status.
has_pending_pass_only(ps, student_id) ==
    \E i \in DOMAIN ps :
        /\ ps[i].student_id = student_id
        /\ ps[i].status \in {"pending", "approved"}

has_active_or_pending_pass(ps, student_id) ==
    \E i \in DOMAIN ps :
        /\ ps[i].student_id = student_id
        /\ ps[i].status \in {"active", "pending", "approved"}

count_active_passes_for_location(ps, location_id) ==
    Cardinality({i \in DOMAIN ps :
        /\ ps[i].destination_location_id = location_id
        /\ ps[i].status = "active"})

\* Faulty variant: passes waiting for review or approved count as well.
is_location_at_capacity_any_status(locs, ps, location_id) ==
    IF location_id \notin DOMAIN locs THEN FALSE
    ELSE IF locs[location_id].max_capacity = None THEN FALSE
    ELSE Cardinality({i \in DOMAIN ps :
            /\ ps[i].destination_location_id = location_id
            /\ ps[i].status \in {"active", "pending", "approved"}})
            >= locs[location_id].max_capacity[1]

\* Faulty variant: the comparison is strict.
is_location_over_capacity(locs, ps, location_id) ==
    IF location_id \notin DOMAIN locs THEN FALSE
    ELSE IF locs[location_id].max_capacity = None THEN FALSE
    ELSE count_active_passes_for_location(ps, location_id)
            > locs[location_id].max_capacity[1]

is_location_at_capacity(locs, ps, location_id) ==
    IF location_id \notin DOMAIN locs THEN FALSE
    ELSE IF locs[location_id].max_capacity = None THEN FALSE
    ELSE count_active_passes_for_location(ps, location_id)
            >= locs[location_id].max_capacity[1]

\* date.replace(hour=0, minute=0, second=0, microsecond=0)
start_of_day(t) == t - (t % MinutesPerDay)

\* Faulty variant: only passes still active are counted.
count_daily_active_passes_for_student(ps, student_id, t) ==
    Cardinality({i \in DOMAIN ps :
        /\ ps[i].student_id = student_id
        /\ ps[i].status = "active"
        /\ ps[i].requested_at >= start_of_day(t)
        /\ ps[i].requested_at < start_of_day(t) + MinutesPerDay})

count_daily_passes_for_student(ps, student_id, t) ==
    Cardinality({i \in DOMAIN ps :
        /\ ps[i].student_id = student_id
        /\ ps[i].requested_at >= start_of_day(t)
        /\ ps[i].requested_at < start_of_day(t) + MinutesPerDay})

\* PassService._get_setting: the stored value, or the default when the key is
\* absent or the lookup raises.
get_setting(settings, key, default, readable) ==
    IF readable /\ key \in DOMAIN settings THEN settings[key] ELSE default

\* ------------------------------------------------------ conflict checkers
\* (routes/pass_advanced.py)

\* Python str <= str: code points compared left to right, a proper prefix is
\* the smaller string.  Strings are tuples of code points.
RECURSIVE StrLE(_, _)
StrLE(a, b) ==
    IF a = << >> THEN TRUE
    ELSE IF b = << >> THEN FALSE
    ELSE IF Head(a) < Head(b) THEN TRUE
    ELSE IF Head(a) > Head(b) THEN FALSE
    ELSE StrLE(Tail(a), Tail(b))

\* now.strftime("%H:%M"): two zero-padded digits, ':' (58), two digits.
strftime_HM(t) ==
    LET h == (t % MinutesPerDay) \div 60
        m == t % 60
    IN  << 48 + (h \div 10), 48 + (h % 10), 58, 48 + (m \div 10), 48 + (m % 10) >>

\* now.weekday(): 0 = Monday ... 6 = Sunday (the clock starts on a Monday).
weekday(t) == (t \div MinutesPerDay) % 7

\* Faulty variant: the end of the window is excluded.
check_no_fly_time_exclusive(nfts, t) ==
    \E n \in nfts :
        /\ n.is_active
        /\ weekday(t) \in n.days_of_week
        /\ StrLE(n.start_time, strftime_HM(t))
        /\ StrLE(strftime_HM(t), n.end_time)
        /\ strftime_HM(t) # n.end_time

\* check_no_fly_time: is the instant t inside an active no-fly window?
check_no_fly_time(nfts, t) ==
    \E n \in nfts :
        /\ n.is_active
        /\ weekday(t) \in n.days_of_week
        /\ StrLE(n.start_time, strftime_HM(t))
        /\ StrLE(strftime_HM(t), n.end_time)

\* Faulty variant: groups that are not active are collected as well.
EncounterGroupsOf_any(groups, student_id) ==
    {g \in groups : student_id \in g.student_ids}

\* check_encounter_prevention: the active groups containing the student, the
\* other members of those groups, and whether one of them holds an active pass
\* (no pass document has an end_time field, so 'end_time': None matches all).
EncounterGroupsOf(groups, student_id) ==
    {g \in groups : g.is_active /\ student_id \in g.student_ids}

all_group_student_ids(groups, student_id) ==
    UNION {g.student_ids \ {student_id} : g \in EncounterGroupsOf(groups, student_id)}

check_encounter_prevention(groups, ps, student_id) ==
    \E i \in DOMAIN ps :
        /\ ps[i].student_id \in all_group_student_ids(groups, student_id)
        /\ ps[i].status = "active"

\* ------------------------------------------------------------------- Init

\* "10:00" and "10:10" as code points.
T1000 == << 49, 48, 58, 48, 48 >>
T1010 == << 49, 48, 58, 49, 48 >>

SeedSettings == [k \in {"default_pass_time_limit", "max_daily_passes"} |->
                    IF k = "max_daily_passes" THEN SeedMaxDaily ELSE 5]

IdleLocal == [student_id |-> "", origin |-> "", destination |-> "",
              time_limit |-> 0, pass_id |-> 0]

NoResponse == [op |-> "", kind |-> "", reason |-> ""]

\* The store after start-up and set-up: no pass yet, one active encounter
\* group {A, B} and one active no-fly window, Monday 10:00-10:10, both created
\* by staff (create_encounter_group, create_no_fly_time).
Init ==
    /\ now = StartTime
    /\ ticks = 0
    /\ passes = << >>
    /\ locations = SeedLocations
    /\ app_settings = SeedSettings
    /\ encounter_groups =
         { [name |-> "g1", student_ids |-> {"A", "B"}, reason |-> "conflict",
            is_active |-> TRUE] }
    /\ no_fly_times =
         { [name |-> "Passing period", start_time |-> T1000, end_time |-> T1010,
            days_of_week |-> {0}, is_active |-> TRUE] }
    /\ pc = [p \in Procs |-> "idle"]
    /\ local = [p \in Procs |-> IdleLocal]
    /\ response = NoResponse
    /\ logged = << >>
    /\ emergency_alerts = << >>
    /\ emergency_checkins = << >>
    /\ sweep_pc = [w \in Sweepers |-> "idle"]
    /\ active_passes = [w \in Sweepers |-> << >>]
    /\ overtime_count = [w \in Sweepers |-> 0]
    /\ emitted = << >>
    /\ MemoryInit

\* ---------------------------------------------------------------- actions

\* server.py: app_exception_handler logs every AppException (NotFound,
\* BusinessLogic, Validation ...) with logger.error, and
\* general_exception_handler logs any other exception with
\* logger.exception, which is the error level too.  An HTTPException goes to
\* the framework's handler, which logs nothing, and so does a result.
AppExceptions == {"NotFound", "BusinessRule", "Validation"}

exception_handler_log(kind) ==
    IF kind \in AppExceptions \cup {"Internal"} THEN << "error" >> ELSE << >>

Respond(op, kind, reason) ==
    /\ response' = [op |-> op, kind |-> kind, reason |-> reason]
    /\ logged' = exception_handler_log(kind)

\* A handler goes in flight: the outcome of the previous one is forgotten.
NoReply == response' = NoResponse /\ logged' = << >>

\* The handler running in slot p returns or raises: the slot is free again.
Finish(p) ==
    /\ pc' = [pc EXCEPT ![p] = "idle"]
    /\ local' = [local EXCEPT ![p] = IdleLocal]

\* The handler in slot p parks at its next await.
Goto(p, label, args) ==
    /\ pc' = [pc EXCEPT ![p] = label]
    /\ local' = [local EXCEPT ![p] = args]

RequestLabels == {"req_capacity", "req_daily", "req_insert"}

RequestsInFlight == Cardinality({q \in Procs : pc[q] \in RequestLabels})

\* Faulty variant: the destination's is_active is not tested.
request_pass_lookup_open(p, student_id, origin, destination, time_limit) ==
    /\ pc[p] = "idle"
    /\ IF student_id \notin Users
       THEN Respond("request", "NotFound", "student") /\ Finish(p)
       ELSE IF has_active_or_pending_pass(passes, student_id)
       THEN Respond("request", "BusinessRule", "has_active") /\ Finish(p)
       ELSE IF origin \notin DOMAIN locations
       THEN Respond("request", "NotFound", "origin") /\ Finish(p)
       ELSE IF destination \notin DOMAIN locations
       THEN Respond("request", "NotFound", "destination") /\ Finish(p)
       ELSE /\ Goto(p, "req_capacity",
                    [IdleLocal EXCEPT !.student_id = student_id,
                                      !.origin = origin,
                                      !.destination = destination,
                                      !.time_limit = time_limit])
            /\ NoReply
    /\ UNCHANGED << now, ticks, passes, store, sweeper, emitted >>

\* PassService.request_pass, lines 59-81: the student lookup, the
\* has_active_or_pending_pass read, the two location lookups and the
\* is_active test.
request_pass_lookup(p, student_id, origin, destination, time_limit) ==
    /\ pc[p] = "idle"
    /\ IF student_id \notin Users
       THEN Respond("request", "NotFound", "student") /\ Finish(p)
       ELSE IF has_active_or_pending_pass(passes, student_id)
       THEN Respond("request", "BusinessRule", "has_active") /\ Finish(p)
       ELSE IF origin \notin DOMAIN locations
       THEN Respond("request", "NotFound", "origin") /\ Finish(p)
       ELSE IF destination \notin DOMAIN locations
       THEN Respond("request", "NotFound", "destination") /\ Finish(p)
       ELSE IF ~ locations[destination].is_active
       THEN Respond("request", "BusinessRule", "inactive") /\ Finish(p)
       ELSE /\ Goto(p, "req_capacity",
                    [IdleLocal EXCEPT !.student_id = student_id,
                                      !.origin = origin,
                                      !.destination = destination,
                                      !.time_limit = time_limit])
            /\ NoReply
    /\ UNCHANGED << now, ticks, passes, store, sweeper, emitted >>

\* lines 83-87: the capacity read.
request_pass_capacity(p) ==
    /\ pc[p] = "req_capacity"
    /\ IF is_location_at_capacity(locations, passes, local[p].destination)
       THEN Respond("request", "BusinessRule", "capacity") /\ Finish(p)
       ELSE Goto(p, "req_daily", local[p]) /\ UNCHANGED reply
    /\ UNCHANGED << now, ticks, passes, store, sweeper, emitted >>

\* Faulty variant: the pass is stored before the time limit is validated.
request_pass_daily_insert_first(p) ==
    /\ pc[p] = "req_daily"
    /\ \E readable \in BOOLEAN :
         LET daily_count == count_daily_passes_for_student(
                                passes, local[p].student_id, now)
             max_daily_passes == get_setting(app_settings, "max_daily_passes",
                                             DefaultMaxDaily, readable)
         IN  IF daily_count >= max_daily_passes
             THEN /\ Respond("request", "BusinessRule", "daily") /\ Finish(p)
                  /\ UNCHANGED passes
             ELSE IF local[p].time_limit < MinTimeLimit
                     \/ local[p].time_limit > MaxTimeLimit
             THEN /\ passes' = Append(passes,
                                  NewPass(local[p].student_id, local[p].origin,
                                          local[p].destination,
                                          local[p].time_limit, now))
                  /\ Respond("request", "Validation", "time_limit") /\ Finish(p)
             ELSE /\ Goto(p, "req_insert", local[p])
                  /\ UNCHANGED << reply, passes >>
    /\ UNCHANGED << now, ticks, store, sweeper, emitted >>

\* lines 89-99: the daily count, the max_daily_passes setting (whose lookup
\* may raise) and the time-limit validation.
request_pass_daily(p) ==
    /\ pc[p] = "req_daily"
    /\ \E readable \in BOOLEAN :
         LET daily_count == count_daily_passes_for_student(
                                passes, local[p].student_id, now)
             max_daily_passes == get_setting(app_settings, "max_daily_passes",
                                             DefaultMaxDaily, readable)
         IN  IF daily_count >= max_daily_passes
             THEN Respond("request", "BusinessRule", "daily") /\ Finish(p)
             ELSE IF local[p].time_limit < MinTimeLimit
                     \/ local[p].time_limit > MaxTimeLimit
             THEN Respond("request", "Validation", "time_limit") /\ Finish(p)
             ELSE Goto(p, "req_insert", local[p]) /\ UNCHANGED reply
    /\ UNCHANGED << now, ticks, passes, store, sweeper, emitted >>

\* Faulty variant: the insert refuses a student who holds a non-terminal pass by now
\* (a uniqueness constraint on the collection).
request_pass_insert_unique(p) ==
    /\ pc[p] = "req_insert"
    /\ IF \E i \in DOMAIN passes :
             /\ passes[i].student_id = local[p].student_id
             /\ passes[i].status \in {"active", "pending", "approved"}
       THEN Respond("request", "BusinessRule", "has_active") /\ UNCHANGED passes
       ELSE /\ passes' = Append(passes,
                            NewPass(local[p].student_id, local[p].origin,
                                    local[p].destination, local[p].time_limit,
                                    now))
            /\ Respond("request", "ok", "")
    /\ Finish(p)
    /\ UNCHANGED << now, ticks, store, sweeper, emitted >>

\* Faulty variant: the insert refuses a destination that is full by now.
request_pass_insert_capped(p) ==
    /\ pc[p] = "req_insert"
    /\ IF is_location_at_capacity(locations, passes, local[p].destination)
       THEN Respond("request", "BusinessRule", "capacity") /\ UNCHANGED passes
       ELSE /\ passes' = Append(passes,
                            NewPass(local[p].student_id, local[p].origin,
                                    local[p].destination, local[p].time_limit,
                                    now))
            /\ Respond("request", "ok", "")
    /\ Finish(p)
    /\ UNCHANGED << now, ticks, store, sweeper, emitted >>

\* lines 101-120: build pass_data and insert it.
request_pass_insert(p) ==
    /\ pc[p] = "req_insert"
    /\ passes' = Append(passes,
                        NewPass(local[p].student_id, local[p].origin,
                                local[p].destination, local[p].time_limit, now))
    /\ Respond("request", "ok", "")
    /\ Finish(p)
    /\ UNCHANGED << now, ticks, store, sweeper, emitted >>

\* Faulty variant: the status is tested before the ownership.
end_pass_find_status_first(p, pass_id, student_id) ==
    /\ pc[p] = "idle"
    /\ IF ~ PassExists(passes, pass_id)
       THEN Respond("end", "NotFound", "pass") /\ Finish(p)
       ELSE IF passes[pass_id].status # "active"
       THEN Respond("end", "BusinessRule", "already_ended") /\ Finish(p)
       ELSE IF passes[pass_id].student_id # student_id
       THEN Respond("end", "BusinessRule", "not_yours") /\ Finish(p)
       ELSE /\ Goto(p, "end_update",
                    [IdleLocal EXCEPT !.pass_id = pass_id,
                                      !.student_id = student_id])
            /\ NoReply
    /\ UNCHANGED << now, ticks, passes, store, sweeper, emitted >>

\* Faulty variant: the status is not tested at all.
end_pass_find_any_status(p, pass_id, student_id) ==
    /\ pc[p] = "idle"
    /\ IF ~ PassExists(passes, pass_id)
       THEN Respond("end", "NotFound", "pass") /\ Finish(p)
       ELSE IF passes[pass_id].student_id # student_id
       THEN Respond("end", "BusinessRule", "not_yours") /\ Finish(p)
       ELSE /\ Goto(p, "end_update",
                    [IdleLocal EXCEPT !.pass_id = pass_id,
                                      !.student_id = student_id])
            /\ NoReply
    /\ UNCHANGED << now, ticks, passes, store, sweeper, emitted >>

\* PassService.end_pass, lines 153-164: find_by_id, then the ownership and
\* status tests on the document that was read.
end_pass_find(p, pass_id, student_id) ==
    /\ pc[p] = "idle"
    /\ IF ~ PassExists(passes, pass_id)
       THEN Respond("end", "NotFound", "pass") /\ Finish(p)
       ELSE IF passes[pass_id].student_id # student_id
       THEN Respond("end", "BusinessRule", "not_yours") /\ Finish(p)
       ELSE IF passes[pass_id].status # "active"
       THEN Respond("end", "BusinessRule", "already_ended") /\ Finish(p)
       ELSE /\ Goto(p, "end_update",
                    [IdleLocal EXCEPT !.pass_id = pass_id,
                                      !.student_id = student_id])
            /\ NoReply
    /\ UNCHANGED << now, ticks, passes, store, sweeper, emitted >>

\* Faulty variant: the update sets the status and forgets returned_at.
end_pass_update_status_only(p) ==
    /\ pc[p] = "end_update"
    /\ passes' = update_one(passes, local[p].pass_id,
                            [status |-> "completed"], now)
    /\ Respond("end", "ok", "")
    /\ Finish(p)
    /\ UNCHANGED << now, ticks, store, sweeper, emitted >>

\* Faulty variant: the update also resets the overtime flag.
end_pass_update_clear_flag(p) ==
    /\ pc[p] = "end_update"
    /\ passes' = update_one(passes, local[p].pass_id,
                            [status |-> "completed", returned_at |-> Some(now),
                             is_overtime |-> FALSE], now)
    /\ Respond("end", "ok", "")
    /\ Finish(p)
    /\ UNCHANGED << now, ticks, store, sweeper, emitted >>

\* lines 166-171 with PassRepository.end_pass: the update, then the re-read
\* that only builds the return value.
end_pass_update(p) ==
    /\ pc[p] = "end_update"
    /\ passes' = update_one(passes, local[p].pass_id,
                            [status |-> "completed", returned_at |-> Some(now)],
                            now)
    /\ Respond("end", "ok", "")
    /\ Finish(p)
    /\ UNCHANGED << now, ticks, store, sweeper, emitted >>

\* Faulty variant: a pass is approved whatever its status.
approve_pass_unchecked(p, pass_id, approver_id) ==
    /\ pc[p] = "idle"
    /\ IF ~ PassExists(passes, pass_id)
       THEN Respond("approve", "NotFound", "pass") /\ UNCHANGED passes
       ELSE /\ passes' = update_one(passes, pass_id,
                            [status |-> "approved",
                             approved_by |-> Some(approver_id),
                             approved_at |-> Some(now)], now)
            /\ Respond("approve", "ok", "")
    /\ UNCHANGED << now, ticks, store, sweeper, emitted, pc, local >>

\* PassService.approve_pass with PassRepository.approve_pass.
approve_pass(p, pass_id, approver_id) ==
    /\ pc[p] = "idle"
    /\ IF ~ PassExists(passes, pass_id)
       THEN Respond("approve", "NotFound", "pass") /\ UNCHANGED passes
       ELSE IF passes[pass_id].status # "pending"
       THEN Respond("approve", "BusinessRule", "not_pending") /\ UNCHANGED passes
       ELSE /\ passes' = update_one(passes, pass_id,
                            [status |-> "approved",
                             approved_by |-> Some(approver_id),
                             approved_at |-> Some(now)], now)
            /\ Respond("approve", "ok", "")
    /\ UNCHANGED << now, ticks, store, sweeper, emitted, pc, local >>

\* Faulty variant: the reason given is dropped.
deny_pass_no_reason(p, pass_id, denier_id, reason) ==
    /\ pc[p] = "idle"
    /\ IF ~ PassExists(passes, pass_id)
       THEN Respond("deny", "NotFound", "pass") /\ UNCHANGED passes
       ELSE IF passes[pass_id].status # "pending"
       THEN Respond("deny", "BusinessRule", "not_pending") /\ UNCHANGED passes
       ELSE /\ passes' = update_one(passes, pass_id,
                            [status |-> "denied",
                             denied_by |-> Some(denier_id),
                             denied_at |-> Some(now)], now)
            /\ Respond("deny", "ok", "")
    /\ UNCHANGED << now, ticks, store, sweeper, emitted, pc, local >>

\* Faulty variant: a denied pass is removed from the collection.
deny_pass_and_delete(p, pass_id, denier_id, reason) ==
    /\ pc[p] = "idle"
    /\ IF ~ PassExists(passes, pass_id)
       THEN Respond("deny", "NotFound", "pass") /\ UNCHANGED passes
       ELSE IF passes[pass_id].status # "pending"
       THEN Respond("deny", "BusinessRule", "not_pending") /\ UNCHANGED passes
       ELSE /\ passes' = SubSeq(passes, 1, pass_id - 1)
                            \o SubSeq(passes, pass_id + 1, Len(passes))
            /\ Respond("deny", "ok", "")
    /\ UNCHANGED << now, ticks, store, sweeper, emitted, pc, local >>

\* PassService.deny_pass with PassRepository.deny_pass: denial_reason is set
\* only for a non-empty reason.
deny_pass(p, pass_id, denier_id, reason) ==
    /\ pc[p] = "idle"
    /\ IF ~ PassExists(passes, pass_id)
       THEN Respond("deny", "NotFound", "pass") /\ UNCHANGED passes
       ELSE IF passes[pass_id].status # "pending"
       THEN Respond("deny", "BusinessRule", "not_pending") /\ UNCHANGED passes
       ELSE /\ passes' = update_one(passes, pass_id,
                            IF reason # ""
                            THEN [status |-> "denied",
                                  denied_by |-> Some(denier_id),
                                  denied_at |-> Some(now),
                                  denial_reason |-> Some(reason)]
                            ELSE [status |-> "denied",
                                  denied_by |-> Some(denier_id),
                                  denied_at |-> Some(now)],
                            now)
            /\ Respond("deny", "ok", "")
    /\ UNCHANGED << now, ticks, store, sweeper, emitted, pc, local >>

\* Faulty variant: any active account passes, whatever its role.
role_checker_active_only(user, allowed_roles) ==
    IF UserDocs[user].status # "active" THEN "inactive_user" ELSE ""

\* utils/dependencies.py, get_current_active_user and the role_checker of
\* require_role(*allowed_roles): the detail of the HTTPException (403) raised
\* for the caller, "" when the caller passes.
role_checker(user, allowed_roles) ==
    IF UserDocs[user].status # "active" THEN "inactive_user"
    ELSE IF UserDocs[user].role \notin allowed_roles
    THEN "insufficient_permissions"
    ELSE ""

\* `await anext(get_database())`: get_database is a coroutine function, so
\* anext() is handed a coroutine, which is no async iterator, and raises
\* TypeError.
anext_get_database_raises == TRUE

\* update_one with $set on a raw collection: fields are set or added.
set_fields(ps, pass_id, data) ==
    [ps EXCEPT ![pass_id] =
        [f \in DOMAIN ps[pass_id] \cup DOMAIN data |->
            IF f \in DOMAIN data THEN data[f] ELSE ps[pass_id][f]]]

\* routes/passes.py extend_pass, called by `user`: the role dependency, the
\* database handle, the read of the pass, the status test, the new
\* expected_return_time (a field no pass document is stored with) and the
\* update.
extend_pass(p, pass_id, additional_minutes, user) ==
    /\ pc[p] = "idle"
    /\ LET refusal == role_checker(user, {"staff", "admin"})
       IN  IF refusal # ""
           THEN Respond("extend", "Forbidden", refusal) /\ UNCHANGED passes
           ELSE IF anext_get_database_raises
           THEN Respond("extend", "Internal", "TypeError") /\ UNCHANGED passes
           ELSE IF ~ PassExists(passes, pass_id)
           THEN Respond("extend", "NotFound", "pass") /\ UNCHANGED passes
           ELSE IF passes[pass_id].status # "active"
           THEN Respond("extend", "BusinessRule", "not_active")
                /\ UNCHANGED passes
           ELSE IF "expected_return_time" \notin DOMAIN passes[pass_id]
           THEN Respond("extend", "Internal", "KeyError") /\ UNCHANGED passes
           ELSE /\ passes' = set_fields(passes, pass_id,
                   [expected_return_time |->
                        passes[pass_id].expected_return_time
                           + additional_minutes,
                    extended_by       |-> user,
                    extension_minutes |-> additional_minutes,
                    extended_at       |-> now])
                /\ Respond("extend", "ok", "")
    /\ UNCHANGED << now, ticks, store, sweeper, emitted, pc, local >>

\* routes/pass_advanced.py check_no_fly_time as a route: the answer names a
\* window that matches (the first the database returns), or no reason.
check_no_fly(p) ==
    /\ pc[p] = "idle"
    /\ IF check_no_fly_time(no_fly_times, now)
       THEN \E n \in no_fly_times :
               /\ check_no_fly_time({n}, now)
               /\ Respond("check_no_fly", "ok", n.name)
       ELSE Respond("check_no_fly", "ok", "")
    /\ UNCHANGED << now, ticks, passes, store, pc, local, sweeper, emitted >>

\* The orders in which the database may return the documents of S.
Orders(S) ==
    {o \in [1 .. Cardinality(S) -> S] : \A x \in S : \E i \in DOMAIN o : o[i] = x}

\* ', '.join(group_reasons) over the groups in the order they were read.
RECURSIVE join_group_reasons(_)
join_group_reasons(groups) ==
    IF Len(groups) = 0 THEN ""
    ELSE IF Len(groups) = 1 THEN groups[1].reason
    ELSE groups[1].reason \o ", " \o join_group_reasons(Tail(groups))

\* routes/pass_advanced.py check_encounter_prevention as a route, for
\* student_id: no group, no conflict; else the reasons of all the groups
\* read are collected, and they are the answer's reason when another member
\* holds an active pass.
check_encounter(p, student_id) ==
    /\ pc[p] = "idle"
    /\ LET groups == EncounterGroupsOf(encounter_groups, student_id)
       IN  IF groups = {}
           THEN Respond("check_encounter", "ok", "")
           ELSE IF check_encounter_prevention(encounter_groups, passes,
                                              student_id)
           THEN \E o \in Orders(groups) :
                   Respond("check_encounter", "ok",
                           "Encounter prevention: " \o join_group_reasons(o))
           ELSE Respond("check_encounter", "ok", "")
    /\ UNCHANGED << now, ticks, passes, store, pc, local, sweeper, emitted >>

\* ------------------------------------------------------- emergency alerts

\* A document matches the filter {'resolved_at': None}: the field is null or
\* the document has no such field.
resolved_at_is_null(doc) ==
    "resolved_at" \notin DOMAIN doc \/ doc.resolved_at = None

\* Faulty variant: an alert is inserted whatever the store holds.
trigger_alert_unchecked(p, user, type) ==
    /\ pc[p] = "idle"
    /\ LET refusal == role_checker(user, {"admin"})
       IN  IF refusal # ""
           THEN /\ Respond("trigger", "Forbidden", refusal)
                /\ UNCHANGED emergency_alerts
           ELSE /\ emergency_alerts' = Append(emergency_alerts,
                       [type         |-> type,
                        triggered_by |-> user,
                        triggered_at |-> now])
                /\ Respond("trigger", "ok", "")
    /\ UNCHANGED << now, ticks, passes, locations, app_settings,
                    encounter_groups, no_fly_times, emergency_checkins, pc,
                    memory,
                    local, sweeper, emitted >>

\* routes/emergency.py trigger_alert, called by `user`: the role dependency,
\* the test for an alert not yet resolved, and the insert, triggered_by
\* being the caller whatever the body says.  The document is the dict of
\* EmergencyAlertCreate plus triggered_at and created_at: it has no
\* resolved_at and no resolved_by field.
trigger_alert(p, user, type) ==
    /\ pc[p] = "idle"
    /\ LET refusal == role_checker(user, {"admin"})
       IN  IF refusal # ""
           THEN /\ Respond("trigger", "Forbidden", refusal)
                /\ UNCHANGED emergency_alerts
           ELSE IF \E i \in DOMAIN emergency_alerts :
                      resolved_at_is_null(emergency_alerts[i])
           THEN /\ Respond("trigger", "BadRequest", "active_alert")
                /\ UNCHANGED emergency_alerts
           ELSE /\ emergency_alerts' = Append(emergency_alerts,
                       [type         |-> type,
                        triggered_by |-> user,
                        triggered_at |-> now])
                /\ Respond("trigger", "ok", "")
    /\ UNCHANGED << now, ticks, passes, locations, app_settings,
                    encounter_groups, no_fly_times, emergency_checkins, pc,
                    memory,
                    local, sweeper, emitted >>

\* routes/emergency.py resolve_alert, called by `user`.  alert['resolved_at']
\* on a document without that field raises KeyError (500).
resolve_alert(p, alert_id, user) ==
    /\ pc[p] = "idle"
    /\ LET refusal == role_checker(user, {"admin"})
       IN  IF refusal # ""
           THEN /\ Respond("resolve", "Forbidden", refusal)
                /\ UNCHANGED emergency_alerts
           ELSE IF alert_id \notin DOMAIN emergency_alerts
           THEN /\ Respond("resolve", "NotFound", "alert")
                /\ UNCHANGED emergency_alerts
           ELSE IF "resolved_at" \notin DOMAIN emergency_alerts[alert_id]
           THEN /\ Respond("resolve", "Internal", "KeyError")
                /\ UNCHANGED emergency_alerts
           ELSE IF emergency_alerts[alert_id].resolved_at # None
           THEN /\ Respond("resolve", "BadRequest", "resolved")
                /\ UNCHANGED emergency_alerts
           ELSE /\ emergency_alerts' =
                      set_fields(emergency_alerts, alert_id,
                                 [resolved_at |-> Some(now),
                                  resolved_by |-> Some(user)])
                /\ Respond("resolve", "ok", "")
    /\ UNCHANGED << now, ticks, passes, locations, app_settings,
                    encounter_groups, no_fly_times, emergency_checkins, pc,
                    memory,
                    local, sweeper, emitted >>

\* utils/dependencies.py get_current_active_user: the detail of the 403
\* raised for the caller, "" when the caller passes.
get_current_active_user(user) ==
    IF UserDocs[user].status # "active" THEN "inactive_user" ELSE ""

\* routes/emergency.py check_in, called by `user` with the body's alert_id,
\* status and location: the alert lookup (alert['resolved_at'] raises
\* KeyError on a document without that field), the lookup of the caller's
\* check-in for the alert, and the update or the insert.
check_in(p, user, alert_id, status, location) ==
    /\ pc[p] = "idle"
    /\ LET refusal  == get_current_active_user(user)
           existing == {k \in DOMAIN emergency_checkins :
                          /\ emergency_checkins[k].alert_id = alert_id
                          /\ emergency_checkins[k].user_id = user}
       IN  IF refusal # ""
           THEN /\ Respond("check_in", "Forbidden", refusal)
                /\ UNCHANGED emergency_checkins
           ELSE IF alert_id \notin DOMAIN emergency_alerts
           THEN /\ Respond("check_in", "BadRequest", "invalid_alert")
                /\ UNCHANGED emergency_checkins
           ELSE IF "resolved_at" \notin DOMAIN emergency_alerts[alert_id]
           THEN /\ Respond("check_in", "Internal", "KeyError")
                /\ UNCHANGED emergency_checkins
           ELSE IF emergency_alerts[alert_id].resolved_at # None
           THEN /\ Respond("check_in", "BadRequest", "invalid_alert")
                /\ UNCHANGED emergency_checkins
           ELSE IF existing # {}
           THEN LET k == CHOOSE k \in existing : \A m \in existing : k <= m
                IN  /\ emergency_checkins' =
                          [emergency_checkins EXCEPT
                              ![k].status = status,
                              ![k].location = location,
                              ![k].updated_at = now]
                    /\ Respond("check_in", "ok", "updated")
           ELSE /\ emergency_checkins' = Append(emergency_checkins,
                       [alert_id      |-> alert_id,
                        user_id       |-> user,
                        status        |-> status,
                        location      |-> location,
                        checked_in_at |-> now,
                        created_at    |-> now,
                        updated_at    |-> now])
                /\ Respond("check_in", "ok", "created")
    /\ UNCHANGED << now, ticks, passes, locations, app_settings,
                    encounter_groups, no_fly_times, emergency_alerts, pc,
                    memory,
                    local, sweeper, emitted >>

\* ----------------------------------------------------------- overtime sweep

ActiveIds(ps) == {i \in DOMAIN ps : ps[i].status = "active"}

\* The key of sort=[("departed_at", -1)]: an absent value sorts last.
departed_key(doc) ==
    IF doc.departed_at = None THEN -1 ELSE doc.departed_at[1]

\* Document j comes before document i in the sorted result; the database
\* leaves the order of equal keys open, prio settles it.
SortsBefore(ps, prio, j, i) ==
    \/ departed_key(ps[j]) > departed_key(ps[i])
    \/ /\ departed_key(ps[j]) = departed_key(ps[i])
       /\ prio[j] < prio[i]

\* The fields of a pass document that the sweep reads.
SweepDoc(ps, i) ==
    [_id                |-> i,
     departed_at        |-> ps[i].departed_at,
     is_overtime        |-> ps[i].is_overtime,
     time_limit_minutes |-> ps[i].time_limit_minutes]

\* PassRepository.find_all_active_passes(limit): the passes with status
\* active, latest departure first, cut to the first `limit` documents (a
\* cursor sorts before it cuts, whatever the order of .limit and .sort).
find_all_active_passes(ps, limit, prio) ==
    LET act    == ActiveIds(ps)
        ranked == {<< Cardinality({j \in act : SortsBefore(ps, prio, j, i)}) + 1,
                      i >> : i \in act}
        n      == IF Cardinality(act) < limit THEN Cardinality(act) ELSE limit
    IN  [k \in 1 .. n |-> SweepDoc(ps, (CHOOSE r \in ranked : r[1] = k)[2])]

\* Faulty variant: the update also closes the pass.
mark_pass_overtime_and_expire(ps, pass_id, t) ==
    update_one(ps, pass_id, [is_overtime |-> TRUE, status |-> "expired"], t)

\* PassRepository.mark_pass_overtime.
mark_pass_overtime(ps, pass_id, t) ==
    update_one(ps, pass_id, [is_overtime |-> TRUE], t)

\* Faulty variant: a pass already flagged is picked again.
is_due_again(doc, t) ==
    /\ doc.departed_at # None
    /\ t - doc.departed_at[1] > doc.time_limit_minutes

\* lines 318-322: the loop's test on a document that was read, at time t.
is_due(doc, t) ==
    /\ doc.departed_at # None
    /\ ~ doc.is_overtime
    /\ t - doc.departed_at[1] > doc.time_limit_minutes

\* websocket.py emit_pass_overtime: one pass_overtime event to the hall
\* monitors, to the student and to the admins.  No code calls it.
emit_pass_overtime(em, pass_id, student_id, minutes_overtime) ==
    LET event(room) == [type |-> "pass_overtime", pass |-> pass_id,
                        minutes_overtime |-> minutes_overtime, room |-> room]
    IN  em \o << event("hall_monitor"), event("user:" \o student_id),
                 event("role:ADMIN") >>

\* PassService.check_and_mark_overtime_passes, lines 315-316: the read of
\* the active passes.
check_and_mark_overtime_passes_find(w, prio) ==
    /\ sweep_pc[w] = "idle"
    /\ sweep_pc' = [sweep_pc EXCEPT ![w] = "loop"]
    /\ active_passes' = [active_passes EXCEPT
                            ![w] = find_all_active_passes(passes, SweepLimit, prio)]
    /\ overtime_count' = [overtime_count EXCEPT ![w] = 0]
    /\ UNCHANGED << now, ticks, passes, store, pc, local, reply, emitted >>

\* lines 318-327: the loop runs on to the next document that is due and
\* awaits its mark_pass_overtime, or runs out and returns overtime_count.
check_and_mark_overtime_passes_loop(w) ==
    /\ sweep_pc[w] = "loop"
    /\ LET docs == active_passes[w]
           due  == {k \in 1 .. Len(docs) : is_due(docs[k], now)}
       IN  IF due = {}
           THEN /\ sweep_pc' = [sweep_pc EXCEPT ![w] = "idle"]
                /\ active_passes' = [active_passes EXCEPT ![w] = << >>]
                /\ Respond("sweep", "ok", "")
                /\ UNCHANGED << passes, overtime_count >>
           ELSE LET k == CHOOSE k \in due : \A m \in due : k <= m
                IN  /\ passes' = mark_pass_overtime(passes, docs[k]._id, now)
                    /\ active_passes' =
                          [active_passes EXCEPT
                              ![w] = SubSeq(docs, k + 1, Len(docs))]
                    /\ overtime_count' =
                          [overtime_count EXCEPT ![w] = @ + 1]
                    /\ UNCHANGED << sweep_pc, reply >>
    /\ UNCHANGED << now, ticks, store, pc, local, emitted >>

\* The clock advances.
Tick(d) ==
    /\ ticks < MaxTicks
    /\ now' = now + d
    /\ ticks' = ticks + 1
    /\ UNCHANGED << passes, store, pc, local, reply, sweeper, emitted >>

\* The clock of the process objects advances; the pass engine's clock (now)
\* plays no part in them.
AdvanceSeconds(d) ==
    /\ seconds' = seconds + d
    /\ ticks' = ticks + 1
    /\ UNCHANGED << now, passes, locations, app_settings, encounter_groups,
                    no_fly_times, emergency_alerts, emergency_checkins, pc,
                    local, reply, sweeper, emitted, rate_limiter, served,
                    manager, failed_attempts, attempts_made >>

\* ------------------------------------------------------------ rate limiter

\* middleware/rate_limiter.py RATE_LIMITS: (max_requests, window_seconds).
RATE_LIMITS ==
    [login          |-> << 5, 300 >>,
     register       |-> << 3, 3600 >>,
     password_reset |-> << 3, 3600 >>,
     pass_request   |-> << 10, 300 >>,
     api_default    |-> << 100, 60 >>]

\* rate_limit_middleware, lines 122-131: the limit a path falls under.
limit_class(path) ==
    CASE path = "/api/auth/login"       -> "login"
      [] path = "/api/auth/register"    -> "register"
      [] path = "/api/passes/request"   -> "pass_request"
      [] OTHER                          -> "api_default"

\* Paths the middleware lets through unchecked (line 106).
SkipPaths == {"/api/health", "/api/", "/docs", "/redoc"}

\* The entries of a list with a timestamp after t.
entries_after(entries, t) == SelectSeq(entries, LAMBDA e : e[1] > t)

\* sum(count for _, count in entries).
RECURSIVE sum_counts(_)
sum_counts(entries) ==
    IF entries = << >> THEN 0
    ELSE Head(entries)[2] + sum_counts(Tail(entries))

\* min(ts for ts, _ in entries), entries not empty.
oldest_request(entries) ==
    CHOOSE t \in {entries[k][1] : k \in DOMAIN entries} :
        \A k \in DOMAIN entries : t <= entries[k][1]

\* RateLimiter._cleanup_old_entries at time t: every five minutes, entries
\* an hour old are dropped and identifiers left without entry deleted.
cleanup_old_entries(rl, t) ==
    IF t - rl.last_cleanup < 300 THEN rl
    ELSE LET kept(id) == entries_after(rl.requests[id], t - 3600)
             ids      == {id \in DOMAIN rl.requests : kept(id) # << >>}
         IN  [requests |-> [id \in ids |-> kept(id)], last_cleanup |-> t]

\* RateLimiter.check_rate_limit at time t: the answer (is_allowed,
\* retry_after) and the limiter afterwards.  A refusal leaves the list of
\* the identifier as it is (an empty one is created for a new identifier);
\* an allowed request replaces the list by the entries inside the window of
\* THIS call followed by (t, 1).
check_rate_limit(rl, identifier, max_requests, window_seconds, t) ==
    LET cleaned      == cleanup_old_entries(rl, t)
        window_start == t - window_seconds
        entries      == IF identifier \in DOMAIN cleaned.requests
                        THEN cleaned.requests[identifier] ELSE << >>
        recent       == entries_after(entries, window_start)
        total        == sum_counts(recent)
        put(list)    == [cleaned EXCEPT !.requests =
                            [id \in DOMAIN cleaned.requests \cup {identifier} |->
                                IF id = identifier THEN list
                                ELSE cleaned.requests[id]]]
    IN  IF total >= max_requests
        THEN [is_allowed  |-> FALSE,
              retry_after |->
                  IF recent # << >>
                  THEN LET r == oldest_request(recent) - window_start
                       IN  IF r > 1 THEN r ELSE 1
                  ELSE window_seconds,
              limiter     |-> put(entries)]
        ELSE [is_allowed  |-> TRUE,
              retry_after |-> 0,
              limiter     |-> put(recent \o << << t, 1 >> >>)]

\* rate_limit_middleware for a request of client `host` to `path`, with or
\* without a bearer token: the identifier, the limit of the path, the check,
\* and then either 429 or the call of the next handler.
rate_limit_middleware(host, bearer, path) ==
    LET identifier == IF bearer THEN host \o "_auth" ELSE host
        limit      == RATE_LIMITS[limit_class(path)]
        answer     == check_rate_limit(rate_limiter, identifier, limit[1],
                                       limit[2], seconds)
    IN  /\ IF path \in SkipPaths
           THEN /\ Respond("http", "ok", "unchecked")
                /\ UNCHANGED << rate_limiter, served >>
           ELSE /\ rate_limiter' = answer.limiter
                /\ IF answer.is_allowed
                   THEN /\ served' = served (+) SetToBag({[identifier |-> identifier,
                                                          class |-> limit_class(path),
                                                          at |-> seconds]})
                        /\ Respond("http", "ok", "")
                   ELSE /\ served' = served
                        /\ Respond("http", "TooManyRequests",
                                   ToString(answer.retry_after))
        /\ UNCHANGED << now, ticks, passes, locations, app_settings,
                        encounter_groups, no_fly_times, emergency_alerts,
                        emergency_checkins, pc, local, sweeper, emitted,
                        seconds, manager, failed_attempts, attempts_made >>

\* ------------------------------------------------------ connection manager

\* d[k] = v on a dict, and del d[k].
dict_set(d, k, v) == [x \in DOMAIN d \cup {k} |-> IF x = k THEN v ELSE d[x]]
dict_del(d, k) == [x \in DOMAIN d \ {k} |-> d[x]]

\* ConnectionManager.connect.
connect(m, sid, user_id) ==
    LET sessions == IF user_id \in DOMAIN m.user_connections
                    THEN m.user_connections[user_id] ELSE {}
    IN  [m EXCEPT
            !.user_connections = dict_set(@, user_id, sessions \cup {sid}),
            !.session_users    = dict_set(@, sid, user_id)]

\* Faulty variant: the set of a user left without session is kept.
disconnect_keep_empty(m, sid) ==
    LET known   == sid \in DOMAIN m.session_users
        user_id == IF known THEN m.session_users[sid] ELSE ""
    IN  [user_connections |->
            IF user_id # "" /\ user_id \in DOMAIN m.user_connections
            THEN dict_set(m.user_connections, user_id,
                          m.user_connections[user_id] \ {sid})
            ELSE m.user_connections,
         session_users |-> dict_del(m.session_users, sid),
         rooms |-> [r \in DOMAIN m.rooms |-> m.rooms[r] \ {sid}]]

\* ConnectionManager.disconnect: session_users.pop(sid, None), the discard
\* from the user's set when the user id is truthy, the del of a set left
\* empty, and the discard from every room.
disconnect(m, sid) ==
    LET known   == sid \in DOMAIN m.session_users
        user_id == IF known THEN m.session_users[sid] ELSE ""
    IN  [user_connections |->
            IF user_id # "" /\ user_id \in DOMAIN m.user_connections
            THEN LET left == m.user_connections[user_id] \ {sid}
                 IN  IF left = {}
                     THEN dict_del(m.user_connections, user_id)
                     ELSE dict_set(m.user_connections, user_id, left)
            ELSE m.user_connections,
         session_users |-> dict_del(m.session_users, sid),
         rooms |-> [r \in DOMAIN m.rooms |-> m.rooms[r] \ {sid}]]

\* ConnectionManager.join_room.
join_room(m, sid, room) ==
    LET members == IF room \in DOMAIN m.rooms THEN m.rooms[room] ELSE {}
    IN  [m EXCEPT !.rooms = dict_set(@, room, members \cup {sid})]

\* ConnectionManager.leave_room.
leave_room(m, sid, room) ==
    IF room \in DOMAIN m.rooms
    THEN [m EXCEPT !.rooms = dict_set(@, room, m.rooms[room] \ {sid})]
    ELSE m

\* ConnectionManager.get_online_user_count.
get_online_user_count(m) == Cardinality(DOMAIN m.user_connections)

\* A call on the manager puts it in state m and touches nothing else.
ManagerCall(m) ==
    /\ manager' = m
    /\ UNCHANGED << now, ticks, passes, locations, app_settings,
                    encounter_groups, no_fly_times, emergency_alerts,
                    emergency_checkins, pc, local, reply, sweeper, emitted,
                    seconds, rate_limiter, served, failed_attempts,
                    attempts_made >>

\* --------------------------------------------------------- account lockout

\* AccountLockoutTracker.__init__: max_attempts, lockout_duration and
\* attempt_window, in seconds.
max_attempts     == 5
lockout_duration == 900
attempt_window   == 300

\* The account of an email, a fresh one if the email has none.
account_of(fa, email) ==
    IF email \in DOMAIN fa THEN fa[email]
    ELSE [count |-> 0, attempts |-> << >>, locked_until |-> None]

\* AccountLockoutTracker.is_locked at time t.
is_locked(fa, email, t) ==
    /\ email \in DOMAIN fa
    /\ fa[email].locked_until # None
    /\ t < fa[email].locked_until[1]

\* Faulty variant: an attempt made during the lockout is counted as well.
record_failed_attempt_relock(fa, email, t) ==
    LET account  == account_of(fa, email)
        kept     == SelectSeq(account.attempts,
                              LAMBDA a : a > t - attempt_window)
        attempts == Append(kept, t)
    IN  dict_set(fa, email,
                 [count        |-> Len(attempts),
                  attempts     |-> attempts,
                  locked_until |-> IF Len(attempts) >= max_attempts
                                   THEN Some(t + lockout_duration)
                                   ELSE account.locked_until])

\* AccountLockoutTracker.record_failed_attempt at time t: the tracker
\* afterwards.  During a lockout nothing but the creation of the account
\* happens; otherwise the attempts of the last attempt_window are kept, this
\* one is added, and the fifth sets locked_until.
record_failed_attempt(fa, email, t) ==
    LET account  == account_of(fa, email)
        kept     == SelectSeq(account.attempts,
                              LAMBDA a : a > t - attempt_window)
        attempts == Append(kept, t)
    IN  IF account.locked_until # None /\ t < account.locked_until[1]
        THEN dict_set(fa, email, account)
        ELSE dict_set(fa, email,
                      [count        |-> Len(attempts),
                       attempts     |-> attempts,
                       locked_until |-> IF Len(attempts) >= max_attempts
                                        THEN Some(t + lockout_duration)
                                        ELSE account.locked_until])

\* AccountLockoutTracker.reset_attempts.
reset_attempts(fa, email) ==
    IF email \in DOMAIN fa THEN dict_del(fa, email) ELSE fa

\* A failed login of `email` is reported to the tracker.  attempts_made
\* notes the time when the email is not locked out.
RecordFailedAttempt(email) ==
    /\ failed_attempts' = record_failed_attempt(failed_attempts, email, seconds)
    /\ attempts_made' =
          IF is_locked(failed_attempts, email, seconds) THEN attempts_made
          ELSE dict_set(attempts_made, email,
                        Append(IF email \in DOMAIN attempts_made
                               THEN attempts_made[email] ELSE << >>, seconds))
    /\ UNCHANGED << now, ticks, passes, locations, app_settings,
                    encounter_groups, no_fly_times, emergency_alerts,
                    emergency_checkins, pc, local, reply, sweeper, emitted,
                    seconds, rate_limiter, served, manager >>

\* A successful login of `email` is reported to the tracker.
ResetAttempts(email) ==
    /\ failed_attempts' = reset_attempts(failed_attempts, email)
    /\ attempts_made' = IF email \in DOMAIN attempts_made
                        THEN dict_del(attempts_made, email) ELSE attempts_made
    /\ UNCHANGED << now, ticks, passes, locations, app_settings,
                    encounter_groups, no_fly_times, emergency_alerts,
                    emergency_checkins, pc, local, reply, sweeper, emitted,
                    seconds, rate_limiter, served, manager >>

\* ---------------------------------------------------------- specifications

Origins == {"office", "nowhere"}
DenialReasons == {"", "late"}

AllIdle == \A q \in Procs : pc[q] = "idle"

\* A handler is called in slot p.  A request goes past its lookups only
\* while the store, with the requests under way, holds fewer than max passes.
Begin(p, max) ==
    \/ /\ \E s \in StudentIds, o \in Origins, d \in LocationIds, tl \in TimeLimits :
              request_pass_lookup(p, s, o, d, tl)
       /\ pc'[p] # "idle" => Len(passes) + RequestsInFlight < max
    \/ \E i \in 1 .. (max + 1), s \in Users : end_pass_find(p, i, s)
    \/ \E i \in 1 .. (max + 1), a \in StaffIds : approve_pass(p, i, a)
    \/ \E i \in 1 .. (max + 1), a \in StaffIds, r \in DenialReasons :
           deny_pass(p, i, a, r)

\* A handler resumes after an await.
Continue(p) ==
    \/ request_pass_capacity(p)
    \/ request_pass_daily(p)
    \/ request_pass_insert(p)
    \/ end_pass_update(p)

\* Handlers interleave at their awaits.
Next ==
    \/ \E p \in Procs : Begin(p, ConcMaxPasses)
    \/ \E p \in Procs : Continue(p)
    \/ \E d \in TickSteps : Tick(d)

Spec == Init /\ [][Next]_vars

\* One handler at a time (a single slot), and no time passes inside it.
SeqNext ==
    \/ Begin(1, SeqMaxPasses)
    \/ Continue(1)
    \/ AllIdle /\ \E d \in TickSteps : Tick(d)

SeqSpec == Init /\ [][SeqNext]_vars

\* One handler at a time, every request to the unbounded Main Office with a
\* valid time limit: the runs in which only the daily limit can refuse.
DailyNext ==
    \/ /\ \E s \in Users : request_pass_lookup(1, s, "office", "office", 5)
       /\ pc'[1] # "idle" => Len(passes) < DailyMaxPasses
    \/ \E i \in 1 .. DailyMaxPasses, s \in Users : end_pass_find(1, i, s)
    \/ Continue(1)
    \/ AllIdle /\ Tick(MinutesPerDay)

DailySpec == Init /\ [][DailyNext]_vars

\* The state after start-up on a database whose passes collection holds ps.
StartWith(ps) ==
    /\ now = StartTime
    /\ ticks = 0
    /\ passes = ps
    /\ locations = SeedLocations
    /\ app_settings = SeedSettings
    /\ encounter_groups =
         { [name |-> "g1", student_ids |-> {"A", "B"}, reason |-> "conflict",
            is_active |-> TRUE] }
    /\ no_fly_times =
         { [name |-> "Passing period", start_time |-> T1000, end_time |-> T1010,
            days_of_week |-> {0}, is_active |-> TRUE] }
    /\ pc = [p \in Procs |-> "idle"]
    /\ local = [p \in Procs |-> IdleLocal]
    /\ response = NoResponse
    /\ logged = << >>
    /\ emergency_alerts = << >>
    /\ emergency_checkins = << >>
    /\ sweep_pc = [w \in Sweepers |-> "idle"]
    /\ active_passes = [w \in Sweepers |-> << >>]
    /\ overtime_count = [w \in Sweepers |-> 0]
    /\ emitted = << >>
    /\ MemoryInit

\* Databases with passes waiting for review: one of A, or one each of A
\* and B, requested at the start instant.
ReviewStores ==
    { << PendingPass("A", "office", "office", 5, StartTime) >>,
      << PendingPass("A", "office", "office", 5, StartTime),
         PendingPass("B", "office", "nurse", 5, StartTime) >> }

ReviewInit == \E ps \in ReviewStores : StartWith(ps)

\* One handler at a time on a database with pending passes: staff approve
\* and deny, students request and end.
ReviewNext ==
    \/ /\ \E s \in Users : request_pass_lookup(1, s, "office", "office", 5)
       /\ pc'[1] # "idle" => Len(passes) < ReviewMaxPasses
    \/ \E i \in 1 .. (ReviewMaxPasses + 1), s \in Users : end_pass_find(1, i, s)
    \/ \E i \in 1 .. (ReviewMaxPasses + 1), a \in StaffIds : approve_pass(1, i, a)
    \/ \E i \in 1 .. (ReviewMaxPasses + 1), a \in StaffIds, r \in DenialReasons :
           deny_pass(1, i, a, r)
    \/ Continue(1)
    \/ AllIdle /\ \E d \in TickSteps : Tick(d)

ReviewSpec == ReviewInit /\ [][ReviewNext]_vars

\* ReviewSpec in which the server keeps serving: a handler under way
\* completes, and every student keeps calling end_pass on every pass.
FairReviewSpec ==
    /\ ReviewSpec
    /\ WF_vars(ReviewNext)
    /\ WF_vars(Continue(1))
    /\ \A i \in 1 .. ReviewMaxPasses, s \in Users :
          SF_vars(end_pass_find(1, i, s))

SweepersIdle == \A w \in Sweepers : sweep_pc[w] = "idle"

SweepTimeLimits == {5, 6}

\* The calls made while sweeps run: requests to the Main Office with a
\* valid time limit, and end_pass.
SweepBegin(p) ==
    \/ /\ \E s \in Users, tl \in SweepTimeLimits :
              request_pass_lookup(p, s, "office", "office", tl)
       /\ pc'[p] # "idle" => Len(passes) < SweepMaxPasses
    \/ \E i \in 1 .. SweepMaxPasses, s \in Users : end_pass_find(p, i, s)

\* The order the database returns equal sort keys in: any.
TieOrders == Permutations(DOMAIN passes)

\* Handlers and sweeps one at a time, none of them taking time; a sweep that
\* directly follows a sweep runs at the same instant.
SweepSeqNext ==
    \/ SweepersIdle /\ SweepBegin(1)
    \/ SweepersIdle /\ Continue(1)
    \/ AllIdle /\ \E prio \in TieOrders :
                      check_and_mark_overtime_passes_find(1, prio)
    \/ check_and_mark_overtime_passes_loop(1)
    \/ /\ AllIdle
       /\ SweepersIdle
       /\ response.op # "sweep"
       /\ \E d \in TickSteps : Tick(d)

SweepSeqSpec == Init /\ [][SweepSeqNext]_vars

\* One sweeper runs alongside one request slot; they interleave at their
\* awaits and minutes pass at any point.
SweepNext ==
    \/ SweepBegin(1)
    \/ Continue(1)
    \/ \E prio \in TieOrders : check_and_mark_overtime_passes_find(1, prio)
    \/ check_and_mark_overtime_passes_loop(1)
    \/ \E d \in TickSteps \ {MinutesPerDay} : Tick(d)

SweepSpec == Init /\ [][SweepNext]_vars

\* A school day on which more students are out than one sweep reads: each
\* student holds one active pass to the Main Office with a five-minute
\* limit, the passes left a minute apart and the latest left ten minutes ago.
BatchStore(n) ==
    [i \in 1 .. n |->
        NewPass("S" \o ToString(i), "office", "office", 5,
                StartTime - 10 - (n - i))]

BatchInit ==
    \E n \in {SweepLimit, SweepLimit + BatchExtra} : StartWith(BatchStore(n))

\* Sweeps only, one after the other.
BatchNext ==
    \/ check_and_mark_overtime_passes_find(1, [i \in DOMAIN passes |-> i])
    \/ check_and_mark_overtime_passes_loop(1)

BatchSpec == BatchInit /\ [][BatchNext]_vars

\* Stores for the concurrent sweeps: A left ten minutes ago on a five-minute
\* pass, alone or with B who has just left on one.
RaceStores ==
    { << NewPass("A", "office", "office", 5, StartTime - 10) >>,
      << NewPass("A", "office", "office", 5, StartTime - 10),
         NewPass("B", "office", "office", 5, StartTime) >> }

RaceInit == \E ps \in RaceStores : StartWith(ps)

\* Every sweeper runs check_and_mark_overtime_passes; the runs interleave at
\* their awaits while minutes pass.
RaceNext ==
    \/ \E w \in Sweepers, prio \in TieOrders :
          check_and_mark_overtime_passes_find(w, prio)
    \/ \E w \in Sweepers : check_and_mark_overtime_passes_loop(w)
    \/ Tick(6)

RaceSpec == RaceInit /\ [][RaceNext]_vars

\* A database with one pass of A waiting for review.
OpsStores == { << PendingPass("A", "office", "office", 5, StartTime) >> }

OpsInit == \E ps \in OpsStores : StartWith(ps)

ExtendMinutes == {5}

\* Every operation on a pass, one at a time: students request and end, staff
\* approve, deny and extend (students and a deactivated administrator try
\* to), the sweep runs, minutes pass between the calls.
OpsNext ==
    \/ /\ SweepersIdle
       /\ \E s \in Users : request_pass_lookup(1, s, "office", "office", 5)
       /\ pc'[1] # "idle" => Len(passes) < OpsMaxPasses
    \/ SweepersIdle
         /\ \E i \in 1 .. (OpsMaxPasses + 1), s \in Users : end_pass_find(1, i, s)
    \/ SweepersIdle
         /\ \E i \in 1 .. (OpsMaxPasses + 1), a \in StaffIds : approve_pass(1, i, a)
    \/ SweepersIdle
         /\ \E i \in 1 .. (OpsMaxPasses + 1), a \in StaffIds, r \in DenialReasons :
                deny_pass(1, i, a, r)
    \/ SweepersIdle
         /\ \E i \in 1 .. (OpsMaxPasses + 1), m \in ExtendMinutes,
                u \in DOMAIN UserDocs : extend_pass(1, i, m, u)
    \/ SweepersIdle /\ Continue(1)
    \/ AllIdle /\ \E prio \in TieOrders :
                      check_and_mark_overtime_passes_find(1, prio)
    \/ check_and_mark_overtime_passes_loop(1)
    \/ AllIdle /\ SweepersIdle /\ Tick(6)

OpsSpec == OpsInit /\ [][OpsNext]_vars

\* The state after start-up on a database with the given passes, locations,
\* encounter groups and no-fly windows.
StartFrom(ps, locs, groups, nfts) ==
    /\ now = StartTime
    /\ ticks = 0
    /\ passes = ps
    /\ locations = locs
    /\ app_settings = SeedSettings
    /\ encounter_groups = groups
    /\ no_fly_times = nfts
    /\ emergency_alerts = << >>
    /\ emergency_checkins = << >>
    /\ pc = [p \in Procs |-> "idle"]
    /\ local = [p \in Procs |-> IdleLocal]
    /\ response = NoResponse
    /\ logged = << >>
    /\ sweep_pc = [w \in Sweepers |-> "idle"]
    /\ active_passes = [w \in Sweepers |-> << >>]
    /\ overtime_count = [w \in Sweepers |-> 0]
    /\ emitted = << >>
    /\ MemoryInit

\* The capacity an administrator gave the closed room before or after
\* closing it (update_location_capacity): none, 0 or 1.
ClosedCapacities == {None, Some(0), Some(1)}

\* Databases with passes to the nurse's office waiting for review.
LocationStores ==
    { << PendingPass("A", "office", "nurse", 5, StartTime) >>,
      << PendingPass("A", "office", "nurse", 5, StartTime),
         PendingPass("B", "office", "nurse", 5, StartTime) >> }

LocationInit ==
    \E ps \in LocationStores, cap \in ClosedCapacities :
        StartFrom(ps, [SeedLocations EXCEPT !["closed"].max_capacity = cap],
                  {}, {})

\* One handler at a time: requests to the nurse's office (capacity 1) and
\* to the closed room by students and by an id without an account, from a
\* known and from an unknown origin; end, approve and deny.
LocationNext ==
    \/ /\ \E s \in StudentIds, o \in Origins, d \in {"nurse", "closed"} :
              request_pass_lookup(1, s, o, d, 5)
       /\ pc'[1] # "idle" => Len(passes) < LocMaxPasses
    \/ \E i \in 1 .. (LocMaxPasses + 1), s \in Users : end_pass_find(1, i, s)
    \/ \E i \in 1 .. (LocMaxPasses + 1), a \in StaffIds : approve_pass(1, i, a)
    \/ \E i \in 1 .. (LocMaxPasses + 1), a \in StaffIds, r \in DenialReasons :
           deny_pass(1, i, a, r)
    \/ Continue(1)

LocationSpec == LocationInit /\ [][LocationNext]_vars

\* "HH:MM" for hour h and minute m, as code points.
HM(h, m) == strftime_HM(h * 60 + m)

\* The hours staff give a window (create_no_fly_time) around the start
\* instant 10:05 and the instant 10:11 six minutes later: around both, from
\* exactly 10:05, until exactly 10:05, from 10:06 until exactly 10:11,
\* over before 10:05, and with start and end swapped.
WindowHours ==
    { [name |-> "w1", start_time |-> T1000,      end_time |-> T1010],
      [name |-> "w2", start_time |-> HM(10, 5),  end_time |-> T1010],
      [name |-> "w3", start_time |-> T1000,      end_time |-> HM(10, 5)],
      [name |-> "w4", start_time |-> HM(10, 6),  end_time |-> HM(10, 11)],
      [name |-> "w5", start_time |-> HM(9, 0),   end_time |-> HM(10, 4)],
      [name |-> "w6", start_time |-> T1010,      end_time |-> T1000] }

\* The no-fly windows staff may have created: the hours above, on Mondays
\* or on Tuesdays, active or not.
Windows ==
    { [name |-> w.name, start_time |-> w.start_time, end_time |-> w.end_time,
       days_of_week |-> d, is_active |-> a] :
         w \in WindowHours, d \in {{0}, {1}}, a \in BOOLEAN }

\* A database with up to MaxWindows of them and no pass.
NoFlyInit ==
    \E k \in 0 .. MaxWindows :
        \E created \in [1 .. k -> Windows] :
            StartFrom(<< >>, SeedLocations, {},
                      {created[i] : i \in 1 .. k})

\* The no-fly check is called as the minutes and the days pass.
NoFlyNext ==
    \/ check_no_fly(1)
    \/ \E d \in TickSteps : Tick(d)

NoFlySpec == NoFlyInit /\ [][NoFlyNext]_vars

\* The students staff put in encounter groups: A, B and C, a student who
\* requests no pass in these runs.
GroupStudents == Users \cup {"C"}

\* The groups staff may have created (create_encounter_group): g1 keeps A
\* and B apart, g2 keeps A and C apart; each is active or not.
GroupConfigs ==
    LET g1(a) == [name |-> "g1", student_ids |-> {"A", "B"},
                  reason |-> "conflict", is_active |-> a]
        g2(a) == [name |-> "g2", student_ids |-> {"A", "C"},
                  reason |-> "feud", is_active |-> a]
    IN  {{}} \cup {{g1(a)} : a \in BOOLEAN}
             \cup {{g1(a), g2(b)} : a \in BOOLEAN, b \in BOOLEAN}

EncounterInit ==
    \E groups \in GroupConfigs : StartFrom(<< >>, SeedLocations, groups, {})

\* One handler at a time: A and B request passes to the Main Office and end
\* them, and the encounter check is called for A, B and C.
EncounterNext ==
    \/ /\ \E s \in Users : request_pass_lookup(1, s, "office", "office", 5)
       /\ pc'[1] # "idle" => Len(passes) < EncMaxPasses
    \/ \E i \in 1 .. EncMaxPasses, s \in Users : end_pass_find(1, i, s)
    \/ Continue(1)
    \/ \E s \in GroupStudents : check_encounter(1, s)

EncounterSpec == EncounterInit /\ [][EncounterNext]_vars

AlertTypes == {"lockdown", "fire"}

\* An alert document with the fields the EmergencyAlert model declares,
\* resolved_at and resolved_by among them.  trigger_alert stores none;
\* EmergencySpec and CheckInSpec start on databases that hold such documents.
ModelAlert(type, triggered_by, t, resolved_at, resolved_by) ==
    [type         |-> type,
     triggered_by |-> triggered_by,
     triggered_at |-> t,
     resolved_at  |-> resolved_at,
     resolved_by  |-> resolved_by]

\* No alert, one alert resolved half an hour ago, or one alert an hour old
\* and not resolved.
EmergencyStores ==
    { << >>,
      << ModelAlert("fire", "Z", StartTime - 60,
                    Some(StartTime - 30), Some("Z")) >>,
      << ModelAlert("lockdown", "Z", StartTime - 60, None, None) >> }

StartAlerts(alerts) ==
    /\ now = StartTime
    /\ ticks = 0
    /\ passes = << >>
    /\ locations = SeedLocations
    /\ app_settings = SeedSettings
    /\ encounter_groups = {}
    /\ no_fly_times = {}
    /\ emergency_alerts = alerts
    /\ emergency_checkins = << >>
    /\ pc = [p \in Procs |-> "idle"]
    /\ local = [p \in Procs |-> IdleLocal]
    /\ response = NoResponse
    /\ logged = << >>
    /\ sweep_pc = [w \in Sweepers |-> "idle"]
    /\ active_passes = [w \in Sweepers |-> << >>]
    /\ overtime_count = [w \in Sweepers |-> 0]
    /\ emitted = << >>
    /\ MemoryInit

EmergencyInit == \E alerts \in EmergencyStores : StartAlerts(alerts)

\* The alert routes, called by every account, one call at a time.
EmergencyNext ==
    \/ /\ \E u \in DOMAIN UserDocs, ty \in AlertTypes : trigger_alert(1, u, ty)
       /\ Len(emergency_alerts') <= MaxAlerts
    \/ \E i \in 1 .. (MaxAlerts + 1), u \in DOMAIN UserDocs :
           resolve_alert(1, i, u)
    \/ \E d \in TickSteps : Tick(d)

EmergencySpec == EmergencyInit /\ [][EmergencyNext]_vars

\* What a check-in reports: a status and a location.
CheckinReports ==
    { [status |-> "safe", location |-> "gym"],
      [status |-> "need_help", location |-> "lab"] }

\* Accounts that check in: two students and the deactivated administrator.
CheckinUsers == {"A", "B", "Y"}

\* An administrator triggers and resolves alerts while accounts check in,
\* one call at a time.
CheckInNext ==
    \/ /\ \E ty \in AlertTypes : trigger_alert(1, "Z", ty)
       /\ Len(emergency_alerts') <= MaxAlerts
    \/ \E i \in 1 .. MaxAlerts : resolve_alert(1, i, "Z")
    \/ /\ \E u \in CheckinUsers, i \in 1 .. (MaxAlerts + 1),
              r \in CheckinReports : check_in(1, u, i, r.status, r.location)
       /\ Len(emergency_checkins') <= MaxCheckins
    \/ Tick(6)

CheckInSpec == EmergencyInit /\ [][CheckInNext]_vars

\* One client, with and without a token, on the login route, an ordinary
\* route and the health check.
Hosts == {"10.0.0.1"}
Paths == {"/api/auth/login", "/api/passes/active", "/api/health"}

\* Requests arrive at the rate limiter one after the other, before and
\* after a pause of a minute and a second.
RateNext ==
    \/ /\ \E h \in Hosts, b \in BOOLEAN, path \in Paths :
              rate_limit_middleware(h, b, path)
       /\ BagCardinality(served') <= MaxServed
    \/ ticks < MaxRateSteps /\ AdvanceSeconds(61)

RateSpec == Init /\ [][RateNext]_vars

\* Session ids, and the rooms sessions join.
Sids == {"s" \o ToString(i) : i \in 1 .. NumSessions}
Rooms == {"hall_monitor", "user:A"}

\* The socket events, in any order: a connection arrives under a session id
\* not in use (the server gives every connection an id of its own) for a
\* user of the token; sessions disconnect, join and leave rooms.
ManagerNext ==
    \/ \E sid \in Sids, u \in Users :
          /\ sid \notin DOMAIN manager.session_users
          /\ ManagerCall(connect(manager, sid, u))
    \/ \E sid \in Sids : ManagerCall(disconnect(manager, sid))
    \/ \E sid \in Sids, room \in Rooms :
          ManagerCall(join_room(manager, sid, room))
    \/ \E sid \in Sids, room \in Rooms :
          ManagerCall(leave_room(manager, sid, room))

ManagerSpec == Init /\ [][ManagerNext]_vars

Emails == {"a@school.org", "b@school.org"}

\* Logins fail and succeed while a minute, five minutes or a quarter of an
\* hour pass.
LockoutNext ==
    \/ \E e \in Emails :
          /\ RecordFailedAttempt(e)
          /\ Len(attempts_made'[e]) <= MaxAttemptsMade
    \/ \E e \in Emails : ResetAttempts(e)
    \/ /\ ticks < MaxLockSteps
       /\ \E d \in {60, attempt_window, lockout_duration} : AdvanceSeconds(d)

LockoutSpec == Init /\ [][LockoutNext]_vars

\* ----------------------------------------------------------------- claims

NonTerminal == {"pending", "approved", "active"}

NonTerminalPasses(ps, s) ==
    {i \in 1 .. Len(ps) : ps[i].student_id = s /\ ps[i].status \in NonTerminal}

ActivePassesTo(ps, l) ==
    {i \in 1 .. Len(ps) : ps[i].destination_location_id = l /\ ps[i].status = "active"}

\* The slot p takes a step that ends its handler.
Completes(p, label) == pc[p] = label /\ pc'[p] = "idle"

\* C1 (SeqSpec): with handlers run one at a time, every student has at most
\* one pass whose status is pending, approved or active.
C1_OneNonTerminalPass ==
    \A s \in Users : Cardinality(NonTerminalPasses(passes, s)) <= 1

\* C1 witness: a student who ended a pass holds a new one, and a further
\* request of a pass holder has just been refused.
C1_Witness ==
    /\ response.reason = "has_active"
    /\ \E i, j \in 1 .. Len(passes) :
          /\ i < j
          /\ passes[i].student_id = passes[j].student_id
          /\ passes[i].status = "completed"
          /\ passes[j].status = "active"

\* C2 (Spec): a request whose has_active_or_pending_pass read came before
\* another request's insert for the same student is admitted all the same:
\* its insert leaves the student with two non-terminal passes.
C2_BothAdmitted ==
    [][\A p \in Procs :
          (/\ Completes(p, "req_insert")
           /\ NonTerminalPasses(passes, local[p].student_id) # {})
          => /\ response'.kind = "ok"
             /\ Cardinality(NonTerminalPasses(passes', local[p].student_id)) >= 2
      ]_vars

\* C2 witness: one student holds two non-terminal passes.
C2_Witness ==
    \E s \in Users : Cardinality(NonTerminalPasses(passes, s)) >= 2

\* C3 (SeqSpec): a request that reaches the capacity check of a destination
\* holding max_capacity active passes is refused with BusinessRule and inserts
\* nothing, no request is inserted for a full destination, and the active
\* passes to a destination never exceed its max_capacity.
C3_CapacityRespected ==
    /\ [](\A l \in DOMAIN locations :
            locations[l].max_capacity # None
            => Cardinality(ActivePassesTo(passes, l)) <= locations[l].max_capacity[1])
    /\ [](\A p \in Procs :
            pc[p] \in {"req_daily", "req_insert"}
            => LET l == local[p].destination
               IN  locations[l].max_capacity # None
                   => Cardinality(ActivePassesTo(passes, l))
                         < locations[l].max_capacity[1])
    /\ [][\A p \in Procs :
            LET l == local[p].destination
            IN  (/\ pc[p] = "req_capacity"
                 /\ pc'[p] # "req_capacity"
                 /\ locations[l].max_capacity # None
                 /\ Cardinality(ActivePassesTo(passes, l))
                       >= locations[l].max_capacity[1])
                => /\ response' = [op |-> "request", kind |-> "BusinessRule",
                                   reason |-> "capacity"]
                   /\ pc'[p] = "idle"
                   /\ passes' = passes
       ]_vars

\* C3 witness: the nurse's office is full and a request to it was just refused.
C3_Witness ==
    /\ response.reason = "capacity"
    /\ Cardinality(ActivePassesTo(passes, "nurse")) = locations["nurse"].max_capacity[1]

\* C4 (Spec): a request whose capacity check came before another request's
\* insert to the same destination is admitted all the same: its insert takes
\* the destination over its max_capacity.
C4_BothAdmitted ==
    [][\A p \in Procs :
          LET l == local[p].destination
          IN  (/\ Completes(p, "req_insert")
               /\ locations[l].max_capacity # None
               /\ Cardinality(ActivePassesTo(passes, l))
                     >= locations[l].max_capacity[1])
              => /\ response'.kind = "ok"
                 /\ Cardinality(ActivePassesTo(passes', l))
                       > locations[l].max_capacity[1]
      ]_vars

\* C4 witness: two students hold active passes to the capacity-1 nurse's office.
C4_Witness ==
    /\ locations["nurse"].max_capacity = Some(1)
    /\ \E i, j \in ActivePassesTo(passes, "nurse") :
          passes[i].student_id # passes[j].student_id

PassesOnDay(ps, s, day) ==
    {i \in 1 .. Len(ps) :
        ps[i].student_id = s /\ ps[i].requested_at \div MinutesPerDay = day}

\* The configured daily maximum: the stored setting, 5 when there is none.
ConfiguredMaxDaily ==
    IF "max_daily_passes" \in DOMAIN app_settings
    THEN app_settings["max_daily_passes"] ELSE DefaultMaxDaily

\* C5 (DailySpec): a request that reaches the daily check is refused with
\* BusinessRule exactly when the student already has max_daily_passes passes
\* requested on the current day, whatever their status and whatever was
\* requested on other days; so no student has more than max_daily_passes
\* passes requested on one day.
C5_DailyLimit ==
    /\ [](\A s \in Users : \A i \in 1 .. Len(passes) :
            Cardinality(PassesOnDay(passes, s,
                                    passes[i].requested_at \div MinutesPerDay))
               <= ConfiguredMaxDaily)
    /\ [][\A p \in Procs :
            (pc[p] = "req_daily" /\ pc'[p] # "req_daily")
            => IF Cardinality(PassesOnDay(passes, local[p].student_id,
                                          now \div MinutesPerDay))
                     >= ConfiguredMaxDaily
               THEN /\ response' = [op |-> "request", kind |-> "BusinessRule",
                                    reason |-> "daily"]
                    /\ pc'[p] = "idle"
                    /\ passes' = passes
               ELSE response'.reason # "daily"
       ]_vars

\* C5 witness: a student whose five passes of today are all completed was
\* just refused a sixth.
C5_Witness ==
    /\ response.reason = "daily"
    /\ \E s \in Users :
          /\ Cardinality(PassesOnDay(passes, s, now \div MinutesPerDay))
                = ConfiguredMaxDaily
          /\ \A i \in PassesOnDay(passes, s, now \div MinutesPerDay) :
                passes[i].status = "completed"

\* C6 (SeqSpec): request_pass applies its checks in the order student,
\* non-terminal pass, locations, destination active, capacity, no-fly and
\* encounter conflict, daily limit, time limit, and answers with the error
\* of the first check that fails.
C6_CheckOrder ==
    [][\A p \in Procs :
         /\ (pc[p] = "idle" /\ pc'[p] = "req_capacity")
            => /\ local'[p].student_id \in Users
               /\ NonTerminalPasses(passes, local'[p].student_id) = {}
               /\ local'[p].origin \in DOMAIN locations
               /\ local'[p].destination \in DOMAIN locations
               /\ locations[local'[p].destination].is_active
         /\ (AllIdle /\ pc' = pc /\ response' # response
                     /\ response'.op = "request")
            => \/ response'.kind = "NotFound"
                  /\ response'.reason \in {"student", "origin", "destination"}
               \/ response'.kind = "BusinessRule"
                  /\ response'.reason \in {"has_active", "inactive"}
         /\ (pc[p] = "req_capacity" /\ pc'[p] # "req_capacity")
            => LET l == local[p].destination
               IN  IF /\ locations[l].max_capacity # None
                      /\ Cardinality(ActivePassesTo(passes, l))
                            >= locations[l].max_capacity[1]
                   THEN /\ pc'[p] = "idle"
                        /\ response'.kind = "BusinessRule"
                        /\ response'.reason = "capacity"
                   ELSE IF \/ check_no_fly_time(no_fly_times, now)
                           \/ check_encounter_prevention(
                                 encounter_groups, passes, local[p].student_id)
                   THEN /\ pc'[p] = "idle"
                        /\ response'.kind = "BusinessRule"
                        /\ passes' = passes
                   ELSE pc'[p] = "req_daily"
         /\ (pc[p] = "req_daily" /\ pc'[p] # "req_daily")
            => IF Cardinality(PassesOnDay(passes, local[p].student_id,
                                          now \div MinutesPerDay))
                     >= ConfiguredMaxDaily
               THEN pc'[p] = "idle" /\ response'.kind = "BusinessRule"
               ELSE IF local[p].time_limit < MinTimeLimit
                       \/ local[p].time_limit > MaxTimeLimit
               THEN pc'[p] = "idle" /\ response'.kind = "Validation"
               ELSE pc'[p] = "req_insert"
      ]_vars

\* C7 (SeqSpec): a successful request inserts one pass, pending and without
\* departed_at when the destination requires approval, active and departed at
\* the request time otherwise.
C7_StatusByApproval ==
    [][\A p \in Procs :
         Completes(p, "req_insert")
         => /\ Len(passes') = Len(passes) + 1
            /\ LET created == passes'[Len(passes')]
               IN  IF locations[local[p].destination].requires_approval
                   THEN created.status = "pending" /\ created.departed_at = None
                   ELSE created.status = "active" /\ created.departed_at = Some(now)
      ]_vars

\* C8 (SeqSpec): two different members of an active encounter group never
\* hold active passes at the same time.
C8_NoGroupEncounter ==
    \A g \in encounter_groups :
        g.is_active
        => \A i, j \in 1 .. Len(passes) :
              (/\ passes[i].status = "active"
               /\ passes[j].status = "active"
               /\ passes[i].student_id \in g.student_ids
               /\ passes[j].student_id \in g.student_ids)
              => passes[i].student_id = passes[j].student_id

\* C9 (SeqSpec): no pass is created by a request made inside an active
\* no-fly window.
C9_NoPassInNoFly ==
    \A i \in 1 .. Len(passes) :
        ~ check_no_fly_time(no_fly_times, passes[i].requested_at)

\* C10 (SeqSpec): ending an active pass of the caller sets its status to
\* completed and its returned_at to the current time, changes nothing else in
\* the store, and leaves the student without a non-terminal pass, free to
\* request again.
C10_EndPassEffect ==
    [][\A p \in Procs :
         Completes(p, "end_update")
         => LET id == local[p].pass_id
            IN  /\ passes[id].student_id = local[p].student_id
                /\ passes[id].status = "active"
                /\ response'.kind = "ok"
                /\ Len(passes') = Len(passes)
                /\ passes'[id].status = "completed"
                /\ passes'[id].returned_at # None
                /\ passes'[id].returned_at = Some(now)
                /\ \A f \in DOMAIN passes[id]
                            \ {"status", "returned_at", "updated_at"} :
                      passes'[id][f] = passes[id][f]
                /\ \A j \in 1 .. Len(passes) : j # id => passes'[j] = passes[j]
                /\ NonTerminalPasses(passes', local[p].student_id) = {}
      ]_vars

\* C10 witness: a student whose pass was ended (completed, with returned_at)
\* holds a pass requested afterwards.
C10_Witness ==
    \E i, j \in 1 .. Len(passes) :
        /\ i < j
        /\ passes[i].student_id = passes[j].student_id
        /\ passes[i].status = "completed"
        /\ passes[i].returned_at # None
        /\ passes[j].status = "active"
        /\ passes[j].requested_at >= passes[i].returned_at[1]

\* The answer a handler gives.
Answer(op, kind, reason) == [op |-> op, kind |-> kind, reason |-> reason]

\* Everything of the pass store but the given fields of pass id is kept.
OnlyChanged(id, fields) ==
    /\ Len(passes') = Len(passes)
    /\ \A f \in DOMAIN passes[id] \ fields : passes'[id][f] = passes[id][f]
    /\ \A j \in 1 .. Len(passes) : j # id => passes'[j] = passes[j]

\* C11 (ReviewSpec): end_pass fails and leaves every pass as it was, with
\* NotFound when the pass does not exist, with BusinessRule when the pass
\* belongs to another student, whatever its status, and with BusinessRule
\* when the caller's pass is not active; so a further end_pass on a completed
\* pass fails and keeps its returned_at.  Only an active pass of the caller
\* goes on to the update.
C11_EndPassRefusals ==
    [][\A p \in Procs :
        (pc[p] = "idle" /\ (response'.op = "end" \/ pc'[p] = "end_update"))
        => \A i \in 1 .. (ReviewMaxPasses + 1), s \in Users :
          end_pass_find(p, i, s)
          => /\ passes' = passes
             /\ IF i \notin DOMAIN passes
                THEN /\ response' = Answer("end", "NotFound", "pass")
                     /\ pc'[p] = "idle"
                ELSE IF passes[i].student_id # s
                THEN /\ response' = Answer("end", "BusinessRule", "not_yours")
                     /\ pc'[p] = "idle"
                ELSE IF passes[i].status # "active"
                THEN /\ response' = Answer("end", "BusinessRule", "already_ended")
                     /\ pc'[p] = "idle"
                     /\ passes'[i].returned_at = passes[i].returned_at
                ELSE pc'[p] = "end_update"
      ]_vars

\* C11 witness: a second end_pass on a pass that was ended has just been
\* refused, and the pass has its returned_at.
C11_Witness ==
    /\ response = Answer("end", "BusinessRule", "already_ended")
    /\ \E i \in 1 .. Len(passes) :
          passes[i].status = "completed" /\ passes[i].returned_at # None

\* C12 (ReviewSpec): approve_pass on a missing pass fails with NotFound and
\* on a pass that is not pending fails with BusinessRule, both leaving the
\* store as it was; on a pending pass it sets status approved, approved_by
\* and approved_at (and the update time) and nothing else.
C12_ApprovePassContract ==
    [][\A p \in Procs :
        (pc[p] = "idle" /\ response'.op = "approve")
        => \A i \in 1 .. (ReviewMaxPasses + 1), a \in StaffIds :
          approve_pass(p, i, a)
          => IF i \notin DOMAIN passes
             THEN /\ response' = Answer("approve", "NotFound", "pass")
                  /\ passes' = passes
             ELSE IF passes[i].status # "pending"
             THEN /\ response' = Answer("approve", "BusinessRule", "not_pending")
                  /\ passes' = passes
             ELSE /\ response' = Answer("approve", "ok", "")
                  /\ passes'[i].status = "approved"
                  /\ passes'[i].approved_by = Some(a)
                  /\ passes'[i].approved_at = Some(now)
                  /\ OnlyChanged(i, {"status", "approved_by", "approved_at",
                                     "updated_at"})
      ]_vars

\* C12 witness: a pending pass was approved, and approving it once more has
\* just been refused.
C12_Witness ==
    /\ response = Answer("approve", "BusinessRule", "not_pending")
    /\ \E i \in 1 .. Len(passes) :
          /\ passes[i].status = "approved"
          /\ passes[i].approved_by # None
          /\ passes[i].approved_at # None

\* The passes of student s are all denied or completed.
AllClosed(ps, s) ==
    \A i \in 1 .. Len(ps) :
        ps[i].student_id = s => ps[i].status \in {"denied", "completed"}

\* C13 (ReviewSpec): deny_pass on a missing pass fails with NotFound and on
\* a pass that is not pending fails with BusinessRule, both leaving the store
\* as it was; on a pending pass it sets status denied, denied_by, denied_at
\* and the reason given (and the update time) and nothing else; a student
\* whose passes are all denied or completed is not refused a request for
\* holding a pass.
C13_DenyPassContract ==
    [][/\ \A p \in Procs :
          (pc[p] = "idle" /\ response'.op = "deny")
          => \A i \in 1 .. (ReviewMaxPasses + 1), a \in StaffIds,
                r \in DenialReasons :
            deny_pass(p, i, a, r)
            => IF i \notin DOMAIN passes
               THEN /\ response' = Answer("deny", "NotFound", "pass")
                    /\ passes' = passes
               ELSE IF passes[i].status # "pending"
               THEN /\ response' = Answer("deny", "BusinessRule", "not_pending")
                    /\ passes' = passes
               ELSE /\ response' = Answer("deny", "ok", "")
                    /\ passes'[i].status = "denied"
                    /\ passes'[i].denied_by = Some(a)
                    /\ passes'[i].denied_at = Some(now)
                    /\ passes'[i].denial_reason
                          = IF r # "" THEN Some(r) ELSE passes[i].denial_reason
                    /\ OnlyChanged(i, {"status", "denied_by", "denied_at",
                                       "denial_reason", "updated_at"})
       /\ \A p \in Procs, s \in Users :
            (/\ pc[p] = "idle"
             /\ response'.op = "request" \/ pc'[p] = "req_capacity"
             /\ AllClosed(passes, s)
             /\ request_pass_lookup(p, s, "office", "office", 5))
            => pc'[p] = "req_capacity"
      ]_vars

\* C13 witness: a student whose pass was denied with a reason holds a pass
\* requested afterwards.
C13_Witness ==
    \E i, j \in 1 .. Len(passes) :
        /\ i < j
        /\ passes[i].student_id = passes[j].student_id
        /\ passes[i].status = "denied"
        /\ passes[i].denied_by # None
        /\ passes[i].denial_reason = Some("late")
        /\ passes[j].status = "active"
        /\ passes[j].requested_at >= passes[i].denied_at[1]

\* The edges of the pass lifecycle.
LifecycleEdges ==
    { << "pending", "approved" >>, << "pending", "denied" >>,
      << "approved", "active" >>, << "active", "completed" >> }

\* C14 (ReviewSpec): every change of a pass's status is an edge of the
\* lifecycle pending->approved, pending->denied, approved->active,
\* active->completed; the status of a completed or denied pass never changes.
C14_LifecycleEdges ==
    [][\A i \in 1 .. Len(passes) :
          /\ i <= Len(passes')
          /\ passes'[i].status # passes[i].status
             => << passes[i].status, passes'[i].status >> \in LifecycleEdges
          /\ passes[i].status \in {"completed", "denied"}
             => passes'[i].status = passes[i].status
      ]_vars

\* C14 witness: one pass was approved, one denied and one ended, and an
\* end_pass on a pass that is not active has just been refused.
C14_Witness ==
    /\ response = Answer("end", "BusinessRule", "already_ended")
    /\ \E i, j, k \in 1 .. Len(passes) :
          /\ passes[i].status = "approved"
          /\ passes[j].status = "denied"
          /\ passes[k].status = "completed"

PastLimit(ps, i, t) ==
    /\ ps[i].status = "active"
    /\ ps[i].departed_at # None
    /\ t - ps[i].departed_at[1] > ps[i].time_limit_minutes

\* The passes whose is_overtime flag this step turns from false to true.
Flipped ==
    {i \in 1 .. Len(passes) : ~ passes[i].is_overtime /\ passes'[i].is_overtime}

\* Sweeper w takes a step; the step in which its run returns.
SweeperSteps(w) ==
    \/ sweep_pc'[w] # sweep_pc[w]
    \/ active_passes'[w] # active_passes[w]
    \/ overtime_count'[w] # overtime_count[w]

SweepReturns(w) == sweep_pc[w] = "loop" /\ sweep_pc'[w] = "idle"

\* C16 (BatchSpec): when a sweep returns, every active pass that has departed
\* and is past its time limit is flagged is_overtime, however many active
\* passes there are; and the sweep flags no pass that is within its limit.
C16_SweepFlagsExactly ==
    [][/\ \A w \in Sweepers :
            SweepReturns(w)
            => \A i \in 1 .. Len(passes') :
                  PastLimit(passes', i, now) => passes'[i].is_overtime
       /\ \A i \in Flipped :
            /\ passes[i].departed_at # None
            /\ now - passes[i].departed_at[1] > passes[i].time_limit_minutes
      ]_vars

\* C17 (SweepSeqSpec): a sweep counts from 0 and adds to overtime_count
\* exactly the passes it turns from is_overtime false to true, leaving every
\* pass already flagged as it is; a sweep that directly follows a sweep
\* changes no pass and returns 0.
C17_SweepIdempotent ==
    [][\A w \in Sweepers :
          /\ (sweep_pc[w] = "idle" /\ sweep_pc'[w] = "loop")
             => overtime_count'[w] = 0 /\ passes' = passes
          /\ (sweep_pc[w] = "loop" /\ SweeperSteps(w))
             => /\ overtime_count'[w] = overtime_count[w] + Cardinality(Flipped)
                /\ \A i \in 1 .. Len(passes) :
                      passes[i].is_overtime => passes'[i] = passes[i]
          /\ (sweep_pc[w] = "loop" /\ SweeperSteps(w) /\ response.op = "sweep")
             => /\ passes' = passes
                /\ SweepReturns(w)
                /\ overtime_count'[w] = 0
      ]_vars

\* C17 witness: a pass was flagged at this instant, and the sweep run
\* after the one that flagged it has returned 0.
C17_Witness ==
    /\ response.op = "sweep"
    /\ sweep_pc[1] = "idle"
    /\ overtime_count[1] = 0
    /\ \E i \in 1 .. Len(passes) :
          /\ passes[i].status = "active"
          /\ passes[i].is_overtime
          /\ passes[i].updated_at = now

\* The pass_overtime events emitted to the hall monitors for pass i.
OvertimeEvents(em, i) ==
    {k \in 1 .. Len(em) : /\ em[k].type = "pass_overtime"
                          /\ em[k].pass = i
                          /\ em[k].room = "hall_monitor"}

\* C18 (SweepSeqSpec): every pass flagged is_overtime has had exactly one
\* pass_overtime event emitted for it, and a pass not flagged none.
C18_OneEventPerFlag ==
    \A i \in 1 .. Len(passes) :
        Cardinality(OvertimeEvents(emitted, i))
           = IF passes[i].is_overtime THEN 1 ELSE 0

\* The pass store with every is_overtime flag and update time wiped.
Unflagged(ps) ==
    [i \in 1 .. Len(ps) |-> [ps[i] EXCEPT !.is_overtime = FALSE, !.updated_at = 0]]

\* C19 (SweepSpec): a step of the sweep changes no status and no field
\* other than is_overtime and updated_at, adds and removes no pass, and
\* touches no handler; and what request_pass and end_pass read of the store
\* (the non-terminal pass of a student, the capacity of a location, the
\* daily count, the owner and status of a pass) does not depend on the
\* is_overtime flags.  So the statuses are the ones reached without the sweep.
C19_SweepFrame ==
    /\ [](\A s \in Users, l \in DOMAIN locations :
            /\ has_active_or_pending_pass(passes, s)
                  = has_active_or_pending_pass(Unflagged(passes), s)
            /\ is_location_at_capacity(locations, passes, l)
                  = is_location_at_capacity(locations, Unflagged(passes), l)
            /\ count_daily_passes_for_student(passes, s, now)
                  = count_daily_passes_for_student(Unflagged(passes), s, now))
    /\ [][\A w \in Sweepers :
            SweeperSteps(w)
            => /\ Unflagged(passes') = Unflagged(passes)
               /\ \A i \in 1 .. Len(passes) :
                     passes[i].is_overtime => passes'[i].is_overtime
               /\ pc' = pc /\ local' = local
       ]_vars

\* C19 witness: a pass was ended while a sweep that had read it was under
\* way, and the sweep flagged it afterwards: it is completed all the same.
C19_Witness ==
    \E i \in 1 .. Len(passes) :
        /\ passes[i].status = "completed"
        /\ passes[i].is_overtime
        /\ passes[i].updated_at > passes[i].returned_at[1]

\* C20 (Spec): a request_pass that is refused with NotFound, BusinessRule or
\* Validation leaves the pass store as it was: no step of a request before
\* its insert writes to the store, and no refusal comes from the insert.
C20_RefusedRequestFrame ==
    [][\A p \in Procs :
          /\ (/\ response'.op = "request"
              /\ response'.kind \in {"NotFound", "BusinessRule", "Validation"}
              /\ \/ response' # response
                 \/ pc[p] \in RequestLabels /\ pc'[p] = "idle")
             => passes' = passes
          /\ (pc'[p] \in RequestLabels /\ pc'[p] # pc[p]) => passes' = passes
      ]_vars

\* C20 witness: a request with a time limit out of range has just been
\* refused while the store holds a pass.
C20_Witness ==
    /\ response = Answer("request", "Validation", "time_limit")
    /\ Len(passes) >= 1

\* C21 (OpsSpec): no step removes a pass: every pass of the store is there
\* after the step under the same id, with the student_id, origin,
\* destination and requested_at it was created with, whatever request,
\* approve, deny, end, extend or sweep step it is.
C21_NeverDeleted ==
    [][/\ Len(passes') >= Len(passes)
       /\ \A i \in 1 .. Len(passes) :
            /\ i <= Len(passes')
            /\ passes'[i].student_id = passes[i].student_id
            /\ passes'[i].origin_location_id = passes[i].origin_location_id
            /\ passes'[i].destination_location_id
                  = passes[i].destination_location_id
            /\ passes'[i].requested_at = passes[i].requested_at
      ]_vars

\* C21 witness: the store holds a pass that was denied and a pass that was
\* flagged by a sweep and then ended.
C21_Witness ==
    \E i, j \in 1 .. Len(passes) :
        /\ passes[i].status = "denied"
        /\ passes[j].status = "completed"
        /\ passes[j].is_overtime

\* C28 (OpsSpec): a pass is created with is_overtime false, and no step of
\* a sweep, end, approve, deny, extend or request turns the is_overtime flag
\* of a pass from true to false.
C28_OvertimeMonotone ==
    [][/\ \A i \in (Len(passes) + 1) .. Len(passes') : ~ passes'[i].is_overtime
       /\ \A i \in 1 .. Len(passes) :
            (i <= Len(passes') /\ passes[i].is_overtime)
            => passes'[i].is_overtime
      ]_vars

\* C28 witness: a pass flagged by a sweep was ended and is still flagged, and
\* an extend_pass has since been answered.
C28_Witness ==
    /\ response.op = "extend"
    /\ \E i \in 1 .. Len(passes) :
          /\ passes[i].status = "completed"
          /\ passes[i].is_overtime
          /\ passes[i].returned_at # None

\* The minutes a pass was extended by: 0 for a pass never extended.
Extension(doc) ==
    IF "extension_minutes" \in DOMAIN doc THEN doc.extension_minutes ELSE 0

\* C30 (OpsSpec): extend_pass by a staff member or an administrator on an
\* active pass succeeds, on a pass that is missing or not active it fails
\* and changes nothing; and the sweep flags a pass only once its elapsed
\* time exceeds time_limit_minutes plus the minutes it was extended by.
C30_ExtendAddsTime ==
    [][/\ \A p \in Procs :
            (pc[p] = "idle" /\ response'.op = "extend")
            => \A i \in 1 .. (OpsMaxPasses + 1), m \in ExtendMinutes,
                  u \in {"T", "Z"} :
                 extend_pass(p, i, m, u)
                 => IF i \in DOMAIN passes /\ passes[i].status = "active"
                    THEN response'.kind = "ok"
                    ELSE response'.kind # "ok" /\ passes' = passes
       /\ \A i \in Flipped :
            /\ passes[i].departed_at # None
            /\ now - passes[i].departed_at[1]
                  > passes[i].time_limit_minutes + Extension(passes[i])
      ]_vars

\* C22 (EmergencySpec): a trigger_alert by a student or by a staff member
\* is refused with 403 (Forbidden) and stores no alert, and every alert in
\* the store was triggered by an account with role admin.
C22_OnlyAdminTriggers ==
    /\ [](\A i \in 1 .. Len(emergency_alerts) :
            UserDocs[emergency_alerts[i].triggered_by].role = "admin")
    /\ [][\A p \in Procs, u \in DOMAIN UserDocs, ty \in AlertTypes :
            (/\ UserDocs[u].role \in {"student", "staff"}
             /\ trigger_alert(p, u, ty))
            => /\ response' = Answer("trigger", "Forbidden",
                                      "insufficient_permissions")
               /\ emergency_alerts' = emergency_alerts
       ]_vars

\* C22 witness: an administrator's alert is in the store and a trigger by
\* an account that is no administrator has just been refused.
C22_Witness ==
    /\ response = Answer("trigger", "Forbidden", "insufficient_permissions")
    /\ \E i \in 1 .. Len(emergency_alerts) :
          emergency_alerts[i].triggered_by = "Z"

\* The passes of ps that are active, in order.
OnlyActive(ps) == SelectSeq(ps, LAMBDA d : d.status = "active")

\* Location l has a max_capacity and as many active passes to it.
Full(locs, ps, l) ==
    /\ l \in DOMAIN locs
    /\ locs[l].max_capacity # None
    /\ Cardinality(ActivePassesTo(ps, l)) >= locs[l].max_capacity[1]

\* C23 (LocationSpec): is_location_at_capacity is false for a location
\* without max_capacity and for an unknown location, and otherwise true
\* exactly when the active passes to the location number max_capacity or
\* more; passes that are pending, approved, completed or denied do not
\* count; and the capacity check of request_pass refuses exactly then.
C23_CapacityByActivePasses ==
    /\ [](\A l \in LocationIds :
            /\ is_location_at_capacity(locations, passes, l)
                  = Full(locations, passes, l)
            /\ is_location_at_capacity(locations, passes, l)
                  = is_location_at_capacity(locations, OnlyActive(passes), l))
    /\ [][\A p \in Procs :
            (pc[p] = "req_capacity" /\ pc'[p] # "req_capacity")
            => IF Full(locations, passes, local[p].destination)
               THEN response' = Answer("request", "BusinessRule", "capacity")
               ELSE pc'[p] = "req_daily"
       ]_vars

\* C23 witness: a request to the nurse's office (capacity 1) has passed the
\* capacity check while an approved pass and a completed pass to the nurse's
\* office are in the store.
C23_Witness ==
    /\ pc[1] = "req_daily"
    /\ local[1].destination = "nurse"
    /\ locations["nurse"].max_capacity = Some(1)
    /\ \E i, j \in 1 .. Len(passes) :
          /\ passes[i].destination_location_id = "nurse"
          /\ passes[i].status = "approved"
          /\ passes[j].destination_location_id = "nurse"
          /\ passes[j].status = "completed"

ParseHM(str) ==
    ((str[1] - 48) * 10 + (str[2] - 48)) * 60
       + (str[4] - 48) * 10 + (str[5] - 48)

\* Window n is active, is for the weekday of instant t, and the time of day
\* of t is between its start and its end, both included.
InWindow(n, t) ==
    /\ n.is_active
    /\ (t \div MinutesPerDay) % 7 \in n.days_of_week
    /\ ParseHM(n.start_time) <= t % MinutesPerDay
    /\ t % MinutesPerDay <= ParseHM(n.end_time)

Triggering(groups, ps, s) ==
    {g \in groups :
        /\ g.is_active
        /\ s \in g.student_ids
        /\ \E i \in 1 .. Len(ps) :
              /\ ps[i].status = "active"
              /\ ps[i].student_id # s
              /\ ps[i].student_id \in g.student_ids}

\* C26 (EncounterSpec): the encounter check for a student reports a
\* conflict exactly when some active group holds the student and a member
\* other than the student who holds an active pass; a group that is not
\* active and the student's own passes produce no conflict.
C26_EncounterExactly ==
    /\ [](\A s \in GroupStudents :
            check_encounter_prevention(encounter_groups, passes, s)
               = (Triggering(encounter_groups, passes, s) # {}))
    /\ [][\A p \in Procs, s \in GroupStudents :
            (/\ pc[p] = "idle"
             /\ response'.op = "check_encounter"
             /\ check_encounter(p, s))
            => (response'.reason # "")
                  = (Triggering(encounter_groups, passes, s) # {})
       ]_vars

\* C26 witness: the check has just reported a conflict for the one active
\* group while the store holds a group that is not active and one pass is
\* active.
C26_Witness ==
    /\ response = Answer("check_encounter", "ok",
                          "Encounter prevention: conflict")
    /\ \E g \in encounter_groups : ~ g.is_active
    /\ Cardinality({i \in 1 .. Len(passes) : passes[i].status = "active"}) = 1

\* C27 (EncounterSpec): when the encounter check reports a conflict, its
\* reason joins the reasons of the groups that triggered it, the groups
\* holding the student and a member with an active pass, and of no other
\* group of the student.
C27_ReasonOfTriggeringGroups ==
    [][\A p \in Procs, s \in GroupStudents :
          (/\ pc[p] = "idle"
           /\ response'.op = "check_encounter"
           /\ response'.reason # ""
           /\ check_encounter(p, s))
          => \E o \in Orders(Triggering(encounter_groups, passes, s)) :
                response'.reason
                   = "Encounter prevention: " \o join_group_reasons(o)
      ]_vars

\* C29 (SeqSpec): a request that ends in a BusinessRule error (capacity,
\* daily limit, a pass already held, a transition from the wrong status, a
\* pass of another student) is logged at no level above info: no record of
\* it is logged at error level.
C29_BusinessRuleNotAnError ==
    response.kind = "BusinessRule"
    => \A k \in DOMAIN logged : logged[k] # "error"

\* models/passes.py, PassStatus: the status values the data model declares.
PassStatus ==
    {"pending", "approved", "active", "completed", "expired", "cancelled"}

C32_FlagsOnlyActive ==
    [][\A i \in 1 .. Len(passes) :
          (~ passes[i].is_overtime /\ passes'[i].is_overtime)
          => passes[i].status = "active"
      ]_vars

\* C33 (RaceSpec): with sweeps running at once, each pass that goes
\* overtime is counted by exactly one of them: a sweep adds one to its count
\* exactly in a step that turns one is_overtime flag from false to true, so
\* the counts returned sum to the number of flags turned.
C33_CountedOnce ==
    [][\A w \in Sweepers :
          (sweep_pc[w] = "loop" /\ SweeperSteps(w))
          => overtime_count'[w] = overtime_count[w] + Cardinality(Flipped)
      ]_vars

\* The alerts of the store that are not resolved.
Unresolved(alerts) ==
    {i \in DOMAIN alerts : resolved_at_is_null(alerts[i])}

\* C34 (EmergencySpec): with the alert routes called one at a time, at most
\* one alert is unresolved; an administrator's trigger_alert while an alert
\* is unresolved is refused with 400 and inserts nothing; and an
\* administrator's resolve_alert of a resolved alert is refused with 400 and
\* leaves the alert as it is.
C34_OneUnresolvedAlert ==
    /\ [](Cardinality(Unresolved(emergency_alerts)) <= 1)
    /\ [][\A p \in Procs, u \in DOMAIN UserDocs, ty \in AlertTypes :
            (/\ role_checker(u, {"admin"}) = ""
             /\ Unresolved(emergency_alerts) # {}
             /\ trigger_alert(p, u, ty))
            => /\ response' = Answer("trigger", "BadRequest", "active_alert")
               /\ emergency_alerts' = emergency_alerts
       ]_vars
    /\ [][\A p \in Procs, u \in DOMAIN UserDocs,
             i \in DOMAIN emergency_alerts :
            (/\ role_checker(u, {"admin"}) = ""
             /\ i \notin Unresolved(emergency_alerts)
             /\ resolve_alert(p, i, u))
            => /\ response' = Answer("resolve", "BadRequest", "resolved")
               /\ emergency_alerts' = emergency_alerts
       ]_vars

\* C34 witness: the store holds a resolved alert and an alert triggered
\* after it that is not resolved, and a resolve_alert of the resolved one
\* has just been refused.
C34_Witness ==
    /\ response = Answer("resolve", "BadRequest", "resolved")
    /\ \E i, j \in DOMAIN emergency_alerts :
          /\ i < j
          /\ i \notin Unresolved(emergency_alerts)
          /\ j \in Unresolved(emergency_alerts)

\* The check-ins of user u for alert i.
CheckinsOf(checkins, i, u) ==
    {k \in DOMAIN checkins : checkins[k].alert_id = i /\ checkins[k].user_id = u}

\* C35 (CheckInSpec): the check-in store holds at most one record per alert
\* and user; an active account's first check-in for an unresolved alert
\* inserts a record, a later one for the same alert sets the status and the
\* location of that record and inserts none, and a check-in for a missing
\* or a resolved alert is refused and stores nothing.
C35_OneCheckinPerUser ==
    /\ [](\A i \in 1 .. MaxAlerts, u \in CheckinUsers :
            Cardinality(CheckinsOf(emergency_checkins, i, u)) <= 1)
    /\ [][\A p \in Procs, u \in CheckinUsers, i \in 1 .. (MaxAlerts + 1),
             r \in CheckinReports :
            (/\ get_current_active_user(u) = ""
             /\ check_in(p, u, i, r.status, r.location))
            => IF i \notin Unresolved(emergency_alerts)
               THEN /\ response'.kind = "BadRequest"
                    /\ emergency_checkins' = emergency_checkins
               ELSE IF CheckinsOf(emergency_checkins, i, u) = {}
               THEN /\ response'.kind = "ok"
                    /\ Len(emergency_checkins') = Len(emergency_checkins) + 1
                    /\ CheckinsOf(emergency_checkins', i, u)
                          = {Len(emergency_checkins')}
               ELSE /\ response'.kind = "ok"
                    /\ Len(emergency_checkins') = Len(emergency_checkins)
                    /\ \A k \in CheckinsOf(emergency_checkins, i, u) :
                          /\ emergency_checkins'[k].status = r.status
                          /\ emergency_checkins'[k].location = r.location
       ]_vars

\* Requests of a class that an identifier was let through with in the
\* window_seconds up to time t.
ServedWithin(id, class, t) ==
    LET hits == {e \in BagToSet(served) :
                    /\ e.identifier = id
                    /\ e.class = class
                    /\ e.at > t - RATE_LIMITS[class][2]
                    /\ e.at <= t}
        RECURSIVE total(_)
        total(S) == IF S = {} THEN 0
                    ELSE LET e == CHOOSE x \in S : TRUE
                         IN  CopiesIn(e, served) + total(S \ {e})
    IN  total(hits)

\* C36 (RateSpec): for every identifier and every class of RATE_LIMITS, the
\* requests of that class let through within any window_seconds number at
\* most max_requests, also when the identifier calls routes of other
\* classes in between; and a refused request leaves the limiter's entries
\* as they are and reports retry_after >= 1.
C36_AtMostMaxRequests ==
    /\ [](\A e \in BagToSet(served) :
            ServedWithin(e.identifier, e.class, e.at)
               <= RATE_LIMITS[e.class][1])
    /\ [][\A h \in Hosts, b \in BOOLEAN, path \in Paths :
            LET id     == IF b THEN h \o "_auth" ELSE h
                limit  == RATE_LIMITS[limit_class(path)]
                answer == check_rate_limit(rate_limiter, id, limit[1],
                                           limit[2], seconds)
            IN  (/\ path \notin SkipPaths
                 /\ ~ answer.is_allowed
                 /\ rate_limit_middleware(h, b, path))
                => /\ answer.retry_after >= 1
                   /\ served' = served
                   /\ id \in DOMAIN rate_limiter.requests
                   /\ rate_limiter'.requests[id] = rate_limiter.requests[id]
       ]_vars

CountedAttempts(e) ==
    IF e \in DOMAIN attempts_made THEN attempts_made[e] ELSE << >>

LastAttempt(e) == CountedAttempts(e)[Len(CountedAttempts(e))]

InLastWindow(e) ==
    {k \in DOMAIN CountedAttempts(e) :
        CountedAttempts(e)[k] > LastAttempt(e) - attempt_window}

\* C38 (LockoutSpec): an email is locked exactly from its 5th failed attempt
\* within 300 seconds (the four before it less than 300 seconds old) until
\* 900 seconds after that attempt; a failed attempt during the lockout
\* changes neither locked_until nor the attempt list; and reset_attempts
\* removes the lock and the attempts.
C38_LockoutWindow ==
    /\ [](\A e \in Emails :
            /\ is_locked(failed_attempts, e, seconds)
               <=> (/\ CountedAttempts(e) # << >>
                    /\ Cardinality(InLastWindow(e)) = max_attempts
                    /\ seconds < LastAttempt(e) + lockout_duration)
            /\ CountedAttempts(e) # << >>
               => Cardinality(InLastWindow(e)) <= max_attempts)
    /\ [][\A e \in Emails :
            (is_locked(failed_attempts, e, seconds) /\ RecordFailedAttempt(e))
            => failed_attempts' = failed_attempts
       ]_vars
    /\ [][\A e \in Emails :
            ResetAttempts(e)
            => /\ e \notin DOMAIN failed_attempts'
               /\ ~ is_locked(failed_attempts', e, seconds)
       ]_vars

\* C38 witness: an email whose first failed attempt was five minutes before
\* the next five is locked since their fifth, a minute ago.
C38_Witness ==
    \E e \in Emails :
        /\ is_locked(failed_attempts, e, seconds)
        /\ Len(CountedAttempts(e)) = 6
        /\ seconds = LastAttempt(e) + 60
        /\ failed_attempts[e].count = max_attempts

====
